---- MODULE Spec2Model ----
(***************************************************************************)
(* Model of the command/event transport layer (src/src/lib/transport.ts):  *)
(* the facade invoke/listen, the WsTransport singleton (token resolution,  *)
(* pre-flight validation, socket lifecycle, reconnect backoff, send queue, *)
(* correlation table, listener map) and the environment flag               *)
(* (src/unnamed/part_002).                                                 *)
(*                                                                         *)
(* Every handler of the program is one action.  The browser, the backend   *)
(* and the user are the environment: they answer the pre-flight request,   *)
(* open and close sockets, deliver messages and call invoke/listen.        *)
(* Time is kept as the remaining delay of every live timer; Advance lets   *)
(* time pass up to the next timer that is due.                             *)
(***************************************************************************)
EXTENDS Integers, Sequences, FiniteSets, TLC

\* ------------------------------------------------------------------------
\* Bounds of the model
\* ------------------------------------------------------------------------
MaxInvokes == 2
MaxSockets == 2
MaxAttempt == 6
MaxRetries == 2
MaxListens == 2
MaxDropped == 1
MaxBridgeCalls == 1
MaxPreloadCalls == 2
MaxLive == 1

\* ------------------------------------------------------------------------
\* Program constants
\* ------------------------------------------------------------------------
RequestTimeoutMs == 60000
BackoffBaseMs == 1000
BackoffCapMs == 30000

\* ------------------------------------------------------------------------
\* Value sets
\* ------------------------------------------------------------------------
NoTok == "none"
Tokens == {"good", "bad"}
ValidTokens == {"good"}
TokOpt == Tokens \cup {NoTok}

NoError == "null"
NoTokenMsg == "No access token provided"
InvalidTokenMsg == "Invalid access token"

NoTimer == -1
NoFetch == [token |-> NoTok, status |-> "none"]

Ids == 1..MaxInvokes
BogusId == MaxInvokes + 1
NoId == -1
Commands == {"get_data"}
Events == {"e1", "e2"}
Handlers == {"h1", "h2"}

\* What a response, an error message or a rejection carries: a text and, to tell
\* the answers of different requests apart, the id of the message it came with.
Payload(text, of) == [text |-> text, of |-> of]
NoPayload == Payload("", -1)
dataOf(id) == Payload("data", id)
errorOf(id) == Payload("boom", id)
TimedOut == Payload("timed out", -1)
UnknownError == Payload("Unknown error", -1)

NoPromise == [state |-> "none", value |-> NoPayload, settles |-> 0]

\* The fields of InitialData (transport.ts 73-80) and the query key each is
\* seeded under (part_005 193-274); 'claude-cli' stands for the queries the
\* preloader never seeds.
Fields == {"projects", "worktreesByProject", "sessionsByWorktree", "activeSessions",
           "preferences", "uiState"}

keyOf(f) ==
    CASE f = "projects" -> "projects.list"
      [] f = "worktreesByProject" -> "projects.worktrees"
      [] f = "sessionsByWorktree" -> "chat.sessions"
      [] f = "activeSessions" -> "chat.session"
      [] f = "preferences" -> "preferences"
      [] f = "uiState" -> "ui-state"

SeedKeys == {keyOf(f) : f \in Fields}
Keys == SeedKeys \cup {"claude-cli"}

\* query.queryKey[0]
keyHead(k) ==
    CASE k \in {"projects.list", "projects.worktrees"} -> "projects"
      [] k \in {"chat.sessions", "chat.session"} -> "chat"
      [] OTHER -> k

\* The response bodies of /api/init: the fields that carry a value, the flags
\* of the one session of the one worktree, and the version of the backend's
\* data they were read at.
SnapshotShapes ==
    {Fields, {}, Fields \ {"preferences", "uiState"},
     {"projects", "worktreesByProject"}, {"sessionsByWorktree"}}

Snapshot(has, rv, wt, ver) == [has |-> has, reviewing |-> rv, waiting |-> wt, ver |-> ver]
NullData == Snapshot({}, FALSE, FALSE, -1)

NoEntry == [src |-> "none", ver |-> -1, stale |-> FALSE]
NoStore == [sessionWorktreeMap |-> "absent", worktreePaths |-> "absent",
            reviewingSessions |-> "absent", waitingForInputSessionIds |-> "absent"]

VARIABLES
    native,            \* isNativeApp(): '__TAURI_INTERNALS__' in window
    loaded,            \* the module's top-level code has run
    urlToken,          \* ?token= of window.location
    stored,            \* localStorage 'jean-http-token'
    ws,                \* this.ws: index into socks, 0 for null
    socks,             \* every WebSocket created so far: readyState; errored: an
                       \* error event was delivered and the close event is due
    pending,           \* this.pending: id -> {promise, timeout}
    promise,           \* the promise returned by each invoke
    timers,            \* remaining delay of each request timer, NoTimer if not live
    elapsed,           \* time since invoke was called while the promise is unsettled, else 0
    queue,             \* this.queue
    wire,              \* every message written to a socket, in order
    reconnectAttempt,  \* this.reconnectAttempt
    reconnectTimer,    \* remaining delay of this.reconnectTimer, NoTimer for null
    _connected,        \* this._connected
    _wsConnected,      \* environment flag behind hasBackend()
    _connecting,       \* this._connecting
    _authError,        \* this._authError
    authFetch,         \* the pre-flight request in flight and the backend's answer
    listeners,         \* this.listeners: event -> its Set of handlers, in insertion order
    unlisteners,       \* the closures returned by listen so far: event, handler and
                       \* how often the closure was called (2 for twice or more)
    delivered,         \* the handler calls made for the latest inbound event message
    dropped,           \* inbound frames that onmessage could not parse and dropped
    nextId,            \* next fresh request id
    bridgeCalls,       \* calls delegated to the native bridge
    initialDataPromise,   \* index into initPromises of the cached promise, 0 for null
    initPromises,      \* every promise created by preloadInitialData: its state and
                       \* value, and the bootstrap fetch made for it
    initialDataResolved,  \* initialDataResolved
    preloadCalls,      \* the calls of preloadInitialData made by the App effect: the
                       \* promise each got and what its then-callback has seen
    cache,             \* the query cache: value and invalidation mark of each key
    store,             \* the chat store fields that seedCache writes
    srvVer,            \* version of the backend's data
    seenConnected,     \* wsConnected as of the last run of the App's connection effect
    mounted,           \* App has rendered for the first time
    isPreloading,      \* the isPreloading state of App; FALSE before the first render
    prEffects          \* the runs of the effect of usePrStatusEvents: the handler and
                       \* the closure of its listen call, whether the then-callback
                       \* has filled unlistens, and whether its cleanup has run

connVars == <<urlToken, stored, _authError, _connecting, authFetch>>
reqVars == <<pending, promise, timers, elapsed, nextId>>
sockVars == <<ws, socks, _connected, _wsConnected>>
retryVars == <<reconnectAttempt, reconnectTimer>>
lsnVars == <<listeners, unlisteners, delivered, dropped>>
preVars == <<initialDataPromise, initPromises, initialDataResolved, preloadCalls>>
uiVars == <<mounted, isPreloading>>
appVars == <<preVars, cache, store, srvVer, seenConnected, uiVars, prEffects>>

vars == <<native, loaded, urlToken, stored, ws, socks, pending, promise, timers,
          elapsed, queue, wire, reconnectAttempt, reconnectTimer, _connected,
          _wsConnected, _connecting, _authError, authFetch, listeners,
          unlisteners, delivered, dropped, nextId, bridgeCalls,
          initialDataPromise, initPromises, initialDataResolved, preloadCalls,
          cache, store, srvVer, seenConnected, mounted, isPreloading, prEffects>>

\* ------------------------------------------------------------------------
\* Helpers
\* ------------------------------------------------------------------------
Min(a, b) == IF a <= b THEN a ELSE b

RECURSIVE Pow2(_)
Pow2(n) == IF n = 0 THEN 1 ELSE 2 * Pow2(n - 1)

SetMin(S) == CHOOSE x \in S : \A y \in S : x <= y

readyState(s) == socks[s].state

EmptyMap == [x \in {} |-> 0]

MapRemove(m, k) == [x \in (DOMAIN m) \ {k} |-> m[x]]

MapSet(m, k, v) == [x \in (DOMAIN m) \cup {k} |-> IF x = k THEN v ELSE m[x]]

WsOpen == ws # 0 /\ readyState(ws) = "OPEN"

Init ==
    /\ native \in BOOLEAN
    /\ loaded = FALSE
    /\ urlToken \in TokOpt
    /\ stored \in TokOpt
    /\ ws = 0
    /\ socks = <<>>
    /\ pending = EmptyMap
    /\ promise = [i \in Ids |-> NoPromise]
    /\ timers = [i \in Ids |-> NoTimer]
    /\ elapsed = [i \in Ids |-> 0]
    /\ queue = <<>>
    /\ wire = <<>>
    /\ reconnectAttempt = 0
    /\ reconnectTimer = NoTimer
    /\ _connected = FALSE
    /\ _wsConnected = FALSE
    /\ _connecting = FALSE
    /\ _authError = NoError
    /\ authFetch = NoFetch
    /\ listeners = EmptyMap
    /\ unlisteners = <<>>
    /\ delivered = <<>>
    /\ dropped = 0
    /\ nextId = 1
    /\ bridgeCalls = 0
    /\ initialDataPromise = 0
    /\ initPromises = <<>>
    /\ initialDataResolved = FALSE
    /\ preloadCalls = <<>>
    /\ cache = [k \in Keys |-> NoEntry]
    /\ store = NoStore
    /\ srvVer = 0
    /\ seenConnected = FALSE
    /\ mounted = FALSE
    /\ isPreloading = FALSE
    /\ prEffects = <<>>

\* ------------------------------------------------------------------------
\* WsTransport.connect (transport.ts 209-242).  The fetch of validateAndConnect
\* is issued before connect returns; its answer is handled by
\* validateAndConnectResume.
\* ------------------------------------------------------------------------
\* Mutant: connect looks at the socket only, not at a validation in flight.
connectBlockedBySocket == ws # 0 /\ readyState(ws) \in {"OPEN", "CONNECTING"}

connectBlocked ==
    \/ _connecting
    \/ (ws # 0 /\ readyState(ws) \in {"OPEN", "CONNECTING"})

\* Mutant: the persisted token is preferred over the query parameter.
resolvedTokenStoredFirst == IF stored # NoTok THEN stored ELSE urlToken

\* const token = urlToken || localStorage.getItem(...) || '' (transport.ts 218-219).
resolvedToken == IF urlToken # NoTok THEN urlToken ELSE stored

\* Mutant: connect gives up while an auth error is set.
connectTerminal ==
    IF connectBlocked \/ _authError # NoError
    THEN UNCHANGED connVars
    ELSE /\ stored' = IF urlToken # NoTok THEN urlToken ELSE stored
         /\ urlToken' = NoTok
         /\ IF resolvedToken = NoTok
            THEN /\ _authError' = NoTokenMsg
                 /\ UNCHANGED <<_connecting, authFetch>>
            ELSE /\ _connecting' = TRUE
                 /\ authFetch' = [token |-> resolvedToken, status |-> "sent"]
                 /\ UNCHANGED _authError

\* Mutant: connect validates whatever it resolved, the empty token included.
connectEmptyToken ==
    IF connectBlocked
    THEN UNCHANGED connVars
    ELSE /\ stored' = IF urlToken # NoTok THEN urlToken ELSE stored
         /\ urlToken' = NoTok
         /\ _connecting' = TRUE
         /\ authFetch' = [token |-> resolvedToken, status |-> "sent"]
         /\ UNCHANGED _authError

connect ==
    IF connectBlocked
    THEN UNCHANGED connVars
    ELSE /\ stored' = IF urlToken # NoTok THEN urlToken ELSE stored
         /\ urlToken' = NoTok
         /\ IF resolvedToken = NoTok
            THEN /\ _authError' = NoTokenMsg
                 /\ UNCHANGED <<_connecting, authFetch>>
            ELSE /\ _connecting' = TRUE
                 /\ authFetch' = [token |-> resolvedToken, status |-> "sent"]
                 /\ UNCHANGED _authError

\* Mutant: the backoff doubles without a cap.
backoffDelayUncapped(attempt) == BackoffBaseMs * Pow2(attempt)

\* WsTransport.scheduleReconnect (transport.ts 389-402); authErr is the value
\* of this._authError at the call.
backoffDelay(attempt) == Min(BackoffBaseMs * Pow2(attempt), BackoffCapMs)

scheduleSkipped(authErr) == reconnectTimer # NoTimer \/ authErr # NoError

\* Mutant: scheduleReconnect arms a timer also when one is pending.
scheduleReconnectRearms(authErr) ==
    IF authErr # NoError
    THEN UNCHANGED retryVars
    ELSE /\ reconnectTimer' = backoffDelay(reconnectAttempt)
         /\ reconnectAttempt' = reconnectAttempt + 1

\* Mutant: only the first reconnect of a row is scheduled.
scheduleReconnectFirstOnly(authErr) ==
    IF scheduleSkipped(authErr) \/ reconnectAttempt > 0
    THEN UNCHANGED retryVars
    ELSE /\ reconnectTimer' = backoffDelay(reconnectAttempt)
         /\ reconnectAttempt' = reconnectAttempt + 1

\* scheduleReconnect (transport.ts 389-402).
scheduleReconnect(authErr) ==
    IF scheduleSkipped(authErr)
    THEN UNCHANGED retryVars
    ELSE /\ reconnectTimer' = backoffDelay(reconnectAttempt)
         /\ reconnectAttempt' = reconnectAttempt + 1

\* The attempt counter is unbounded in the program; the model stops at MaxAttempt.
canSchedule(authErr) == scheduleSkipped(authErr) \/ reconnectAttempt < MaxAttempt

\* Module load (transport.ts 405-411): auto-connect in browser mode.
ModuleLoad ==
    /\ ~loaded
    /\ loaded' = TRUE
    /\ IF native THEN UNCHANGED connVars ELSE connect
    /\ UNCHANGED <<native, reqVars, sockVars, retryVars, lsnVars, queue, wire, bridgeCalls,
                   appVars>>

\* The backend (or the network) answers the pre-flight request /api/auth.
AuthAnswer(r) ==
    /\ authFetch.status = "sent"
    /\ r \in {"failed", IF authFetch.token \in ValidTokens THEN "ok" ELSE "rejected"}
    /\ authFetch' = [authFetch EXCEPT !.status = r]
    /\ UNCHANGED <<native, loaded, urlToken, stored, _authError, _connecting, reqVars,
                   sockVars, retryVars, lsnVars, queue, wire, bridgeCalls, appVars>>

\* WsTransport.connectWs (transport.ts 267-304): a new socket replaces this.ws.
connectWs ==
    /\ socks' = Append(socks, [state |-> "CONNECTING", errored |-> FALSE])
    /\ ws' = Len(socks) + 1

\* Mutant: a rejected token is handled like an unreachable server: the token
\* is kept and a reconnect is scheduled.
validateAndConnectResumeRetries ==
    /\ authFetch.status \in {"ok", "rejected", "failed"}
    /\ authFetch' = NoFetch
    /\ _connecting' = FALSE
    /\ UNCHANGED urlToken
    /\ CASE authFetch.status = "rejected" ->
              /\ canSchedule(_authError)
              /\ _authError' = InvalidTokenMsg
              /\ scheduleReconnect(_authError)
              /\ UNCHANGED <<stored, ws, socks>>
         [] authFetch.status = "failed" ->
              /\ canSchedule(NoError)
              /\ _authError' = NoError
              /\ scheduleReconnect(NoError)
              /\ UNCHANGED <<stored, ws, socks>>
         [] authFetch.status = "ok" ->
              /\ Len(socks) < MaxSockets
              /\ _authError' = NoError
              /\ connectWs
              /\ UNCHANGED <<stored, retryVars>>
    /\ UNCHANGED <<native, loaded, reqVars, _connected, _wsConnected, lsnVars, queue,
                   wire, bridgeCalls, appVars>>

\* Mutant: an unreachable server ends the attempt without a retry.
validateAndConnectResumeGivesUp ==
    /\ authFetch.status \in {"ok", "rejected", "failed"}
    /\ authFetch' = NoFetch
    /\ _connecting' = FALSE
    /\ UNCHANGED urlToken
    /\ CASE authFetch.status = "rejected" ->
              /\ stored' = NoTok
              /\ _authError' = InvalidTokenMsg
              /\ UNCHANGED <<ws, socks, retryVars>>
         [] authFetch.status = "failed" ->
              /\ _authError' = NoError
              /\ UNCHANGED <<stored, ws, socks, retryVars>>
         [] authFetch.status = "ok" ->
              /\ Len(socks) < MaxSockets
              /\ _authError' = NoError
              /\ connectWs
              /\ UNCHANGED <<stored, retryVars>>
    /\ UNCHANGED <<native, loaded, reqVars, _connected, _wsConnected, lsnVars, queue,
                   wire, bridgeCalls, appVars>>

\* Mutant: an unreachable server is handled like a rejected token.
validateAndConnectResumeStrict ==
    /\ authFetch.status \in {"ok", "rejected", "failed"}
    /\ authFetch' = NoFetch
    /\ _connecting' = FALSE
    /\ UNCHANGED urlToken
    /\ CASE authFetch.status \in {"rejected", "failed"} ->
              /\ stored' = NoTok
              /\ _authError' = InvalidTokenMsg
              /\ UNCHANGED <<ws, socks, retryVars>>
         [] authFetch.status = "ok" ->
              /\ Len(socks) < MaxSockets
              /\ _authError' = NoError
              /\ connectWs
              /\ UNCHANGED <<stored, retryVars>>
    /\ UNCHANGED <<native, loaded, reqVars, _connected, _wsConnected, lsnVars, queue,
                   wire, bridgeCalls, appVars>>

\* WsTransport.validateAndConnect after the await (transport.ts 248-265) and the
\* finally of connect (239-241).
validateAndConnectResume ==
    /\ authFetch.status \in {"ok", "rejected", "failed"}
    /\ authFetch' = NoFetch
    /\ _connecting' = FALSE
    /\ UNCHANGED urlToken
    /\ CASE authFetch.status = "rejected" ->
              /\ stored' = NoTok
              /\ _authError' = InvalidTokenMsg
              /\ UNCHANGED <<ws, socks, retryVars>>
         [] authFetch.status = "failed" ->
              /\ canSchedule(NoError)
              /\ _authError' = NoError
              /\ scheduleReconnect(NoError)
              /\ UNCHANGED <<stored, ws, socks>>
         [] authFetch.status = "ok" ->
              /\ Len(socks) < MaxSockets
              /\ _authError' = NoError
              /\ connectWs
              /\ UNCHANGED <<stored, retryVars>>
    /\ UNCHANGED <<native, loaded, reqVars, _connected, _wsConnected, lsnVars, queue,
                   wire, bridgeCalls, appVars>>

\* The reconnect timer fires (transport.ts 398-401).
ReconnectTimerFire ==
    /\ reconnectTimer = 0
    /\ reconnectTimer' = NoTimer
    /\ connect
    /\ UNCHANGED <<native, loaded, reqVars, sockVars, reconnectAttempt, lsnVars, queue,
                   wire, bridgeCalls, appVars>>

\* Another page load of the application persists a token (transport.ts 222-223
\* run in another tab of the same origin).
StoreToken(t) ==
    /\ loaded
    /\ ~native
    /\ stored # t
    /\ stored' = t
    /\ UNCHANGED <<native, loaded, urlToken, _authError, _connecting, authFetch, reqVars,
                   sockVars, retryVars, lsnVars, queue, wire, bridgeCalls, appVars>>

\* ------------------------------------------------------------------------
\* Promises and the correlation table
\* ------------------------------------------------------------------------
\* resolve/reject called on promise p: only the first call settles it.
settle(p, kind, value) ==
    [promise EXCEPT ![p] =
        IF @.state = "pending"
        THEN [state |-> kind, value |-> value, settles |-> @.settles + 1]
        ELSE [@ EXCEPT !.settles = @ + 1]]

Unsettled(i) == promise[i].state = "pending"

\* The observer's clock of a request stops when its promise is settled.
observe == elapsed' = [i \in Ids |-> IF promise'[i].state = "pending" THEN elapsed[i] ELSE 0]

invokeMsg(id, c) == [id |-> id, command |-> c]

\* ws.send(data) on socket s.
send(s, msgs) ==
    wire \o [k \in 1..Len(msgs) |->
                [sock |-> s, id |-> msgs[k].id, command |-> msgs[k].command]]

\* Mutant: the request timer is started only when the command is written to the
\* socket; a queued command has none.
wsInvokeTimerOnSend(c) ==
    /\ nextId <= MaxInvokes
    /\ nextId' = nextId + 1
    /\ promise' = [promise EXCEPT ![nextId] =
                      [state |-> "pending", value |-> NoPayload, settles |-> 0]]
    /\ timers' = IF WsOpen THEN [timers EXCEPT ![nextId] = RequestTimeoutMs] ELSE timers
    /\ elapsed' = [elapsed EXCEPT ![nextId] = 0]
    /\ pending' = MapSet(pending, nextId, [promise |-> nextId, timeout |-> nextId])
    /\ IF WsOpen
       THEN /\ wire' = send(ws, <<invokeMsg(nextId, c)>>)
            /\ UNCHANGED <<queue, connVars>>
       ELSE /\ queue' = Append(queue, invokeMsg(nextId, c))
            /\ connect
            /\ UNCHANGED wire
    /\ UNCHANGED <<sockVars, retryVars, lsnVars, bridgeCalls>>

\* WsTransport.invoke (transport.ts 307-336).
wsInvoke(c) ==
    /\ nextId <= MaxInvokes
    /\ nextId' = nextId + 1
    /\ promise' = [promise EXCEPT ![nextId] =
                      [state |-> "pending", value |-> NoPayload, settles |-> 0]]
    /\ timers' = [timers EXCEPT ![nextId] = RequestTimeoutMs]
    /\ elapsed' = [elapsed EXCEPT ![nextId] = 0]
    /\ pending' = MapSet(pending, nextId, [promise |-> nextId, timeout |-> nextId])
    /\ IF WsOpen
       THEN /\ wire' = send(ws, <<invokeMsg(nextId, c)>>)
            /\ UNCHANGED <<queue, connVars>>
       ELSE /\ queue' = Append(queue, invokeMsg(nextId, c))
            /\ connect
            /\ UNCHANGED wire
    /\ UNCHANGED <<sockVars, retryVars, lsnVars, bridgeCalls>>

\* The native bridge takes the call (transport.ts 47-50, 62-65).
bridgeCall ==
    /\ bridgeCalls < MaxBridgeCalls
    /\ bridgeCalls' = bridgeCalls + 1
    /\ UNCHANGED <<connVars, reqVars, sockVars, retryVars, lsnVars, queue, wire>>

\* Mutant: invoke goes to the socket transport whatever the probe says.
InvokeAlwaysWs(c) ==
    /\ loaded
    /\ wsInvoke(c)
    /\ UNCHANGED <<native, loaded, appVars>>

\* invoke of the facade (transport.ts 43-52).
Invoke(c) ==
    /\ loaded
    /\ IF native THEN bridgeCall ELSE wsInvoke(c)
    /\ UNCHANGED <<native, loaded, appVars>>

\* Mutant: the timeout callback rejects but leaves the table entry in place.
RequestTimeoutKeepsEntry(t) ==
    /\ timers[t] = 0
    /\ timers' = [timers EXCEPT ![t] = NoTimer]
    /\ promise' = settle(t, "rejected", TimedOut)
    /\ observe
    /\ UNCHANGED <<native, loaded, connVars, pending, nextId, sockVars,
                   retryVars, lsnVars, queue, wire, bridgeCalls, appVars>>

\* Mutant: the timeout callback gives up every request that is pending.
RequestTimeoutRejectsAll(t) ==
    /\ timers[t] = 0
    /\ timers' = [i \in Ids |-> NoTimer]
    /\ pending' = EmptyMap
    /\ promise' = [i \in Ids |->
                      IF promise[i].state = "pending"
                      THEN [state |-> "rejected", value |-> TimedOut,
                            settles |-> promise[i].settles + 1]
                      ELSE promise[i]]
    /\ observe
    /\ UNCHANGED <<native, loaded, connVars, nextId, sockVars, retryVars,
                   lsnVars, queue, wire, bridgeCalls, appVars>>

\* The timeout callback of request t (transport.ts 317-320).
RequestTimeout(t) ==
    /\ timers[t] = 0
    /\ timers' = [timers EXCEPT ![t] = NoTimer]
    /\ pending' = MapRemove(pending, t)
    /\ promise' = settle(t, "rejected", TimedOut)
    /\ observe
    /\ UNCHANGED <<native, loaded, connVars, nextId, sockVars, retryVars,
                   lsnVars, queue, wire, bridgeCalls, appVars>>

\* ------------------------------------------------------------------------
\* Listeners (transport.ts 339-358) and the fan-out of events (375-386)
\* ------------------------------------------------------------------------
SeqHas(q, x) == \E i \in 1..Len(q) : q[i] = x

SeqRemove(q, x) == SelectSeq(q, LAMBDA y : y # x)

\* Set.add: a handler already in the Set keeps its place.
SetAdd(q, x) == IF SeqHas(q, x) THEN q ELSE Append(q, x)

\* Mutant: the closure deletes the handler and leaves the Set in the map.
unlistenApplyKeepsSet(L, e, h) ==
    IF e \in DOMAIN L THEN [L EXCEPT ![e] = SeqRemove(@, h)] ELSE L

\* The body of the closure returned by listen(e, h) (transport.ts 353-356),
\* applied to the listener map L.
unlistenApply(L, e, h) ==
    IF e \in DOMAIN L
    THEN IF SeqRemove(L[e], h) = <<>>
         THEN MapRemove(L, e)
         ELSE [L EXCEPT ![e] = SeqRemove(@, h)]
    ELSE L

\* One more call of a closure.
called(U, k) == [U EXCEPT ![k].calls = Min(@ + 1, 2)]

\* What a handler does when it is called: it returns, it throws, or it calls
\* one of the closures returned by listen so far and returns.
Return == [kind |-> "return", k |-> 0]
Throw == [kind |-> "throw", k |-> 0]
HandlerActs == {Return, Throw} \cup {[kind |-> "unlisten", k |-> i] : i \in 1..Len(unlisteners)}

\* Mutant: the loop has no try/catch of its own, a handler that throws ends it.
RECURSIVE fanOutUnguarded(_, _, _, _)
fanOutUnguarded(e, todo, st, act) ==
    IF todo = <<>>
    THEN st
    ELSE LET h == Head(todo)
             a == act[h]
             st1 == [L |-> IF a.kind = "unlisten"
                           THEN unlistenApply(st.L, st.U[a.k].event, st.U[a.k].handler)
                           ELSE st.L,
                     U |-> IF a.kind = "unlisten" THEN called(st.U, a.k) ELSE st.U,
                     D |-> Append(st.D, <<e, h>>)]
             rest == SelectSeq(Tail(todo),
                               LAMBDA x : e \in DOMAIN st1.L /\ SeqHas(st1.L[e], x))
         IN IF a.kind = "throw" THEN st1 ELSE fanOutUnguarded(e, rest, st1, act)

\* The loop of handleMessage over the Set of event e (transport.ts 378-384):
\* todo is what the iterator has not visited yet, st the listener map, the
\* closures and the calls made so far.  The iterator is live: a handler removed
\* from the Set before its turn is not visited.
RECURSIVE fanOut(_, _, _, _)
fanOut(e, todo, st, act) ==
    IF todo = <<>>
    THEN st
    ELSE LET h == Head(todo)
             a == act[h]
             st1 == [L |-> IF a.kind = "unlisten"
                           THEN unlistenApply(st.L, st.U[a.k].event, st.U[a.k].handler)
                           ELSE st.L,
                     U |-> IF a.kind = "unlisten" THEN called(st.U, a.k) ELSE st.U,
                     D |-> Append(st.D, <<e, h>>)]
             rest == SelectSeq(Tail(todo),
                               LAMBDA x : e \in DOMAIN st1.L /\ SeqHas(st1.L[e], x))
         IN fanOut(e, rest, st1, act)

\* The handlers an inbound message can reach.
handlersOf(msg) ==
    IF msg.type = "event" /\ msg.event \in DOMAIN listeners
    THEN {listeners[msg.event][i] : i \in 1..Len(listeners[msg.event])}
    ELSE {}

\* Mutant: every error answer is reported as 'Unknown error'.
errorTextGeneric(e) == UnknownError

\* Error text of a rejected request (transport.ts 373).
errorText(e) == IF e.text = "" THEN UnknownError ELSE e

\* Mutant: an answer settles the oldest entry of the table, as if answers came
\* in the order of the requests.
handleMessageFifo(msg, act) ==
    CASE msg.type \in {"response", "error"} /\ msg.id # NoId ->
           /\ IF msg.id \in DOMAIN pending
              THEN LET first == SetMin(DOMAIN pending) IN
                   /\ timers' = [timers EXCEPT ![pending[first].timeout] = NoTimer]
                   /\ pending' = MapRemove(pending, first)
                   /\ promise' = IF msg.type = "response"
                                 THEN settle(pending[first].promise, "resolved", msg.data)
                                 ELSE settle(pending[first].promise, "rejected",
                                             errorText(msg.error))
              ELSE UNCHANGED <<pending, promise, timers>>
           /\ UNCHANGED <<listeners, unlisteners, delivered>>
      [] msg.type = "event" /\ msg.event # "" ->
           /\ LET r == IF msg.event \in DOMAIN listeners
                       THEN fanOut(msg.event, listeners[msg.event],
                                   [L |-> listeners, U |-> unlisteners, D |-> <<>>], act)
                       ELSE [L |-> listeners, U |-> unlisteners, D |-> <<>>]
              IN /\ listeners' = r.L
                 /\ unlisteners' = r.U
                 /\ delivered' = r.D
           /\ UNCHANGED <<pending, promise, timers>>
      [] OTHER -> UNCHANGED <<pending, promise, timers, listeners, unlisteners, delivered>>

\* Mutant: an answer removes the entry and settles the promise but leaves the
\* request timer running.
handleMessageKeepsTimer(msg, act) ==
    CASE msg.type \in {"response", "error"} /\ msg.id # NoId ->
           /\ IF msg.id \in DOMAIN pending
              THEN /\ pending' = MapRemove(pending, msg.id)
                   /\ promise' = IF msg.type = "response"
                                 THEN settle(pending[msg.id].promise, "resolved", msg.data)
                                 ELSE settle(pending[msg.id].promise, "rejected",
                                             errorText(msg.error))
                   /\ UNCHANGED timers
              ELSE UNCHANGED <<pending, promise, timers>>
           /\ UNCHANGED <<listeners, unlisteners, delivered>>
      [] msg.type = "event" /\ msg.event # "" ->
           /\ LET r == IF msg.event \in DOMAIN listeners
                       THEN fanOut(msg.event, listeners[msg.event],
                                   [L |-> listeners, U |-> unlisteners, D |-> <<>>], act)
                       ELSE [L |-> listeners, U |-> unlisteners, D |-> <<>>]
              IN /\ listeners' = r.L
                 /\ unlisteners' = r.U
                 /\ delivered' = r.D
           /\ UNCHANGED <<pending, promise, timers>>
      [] OTHER -> UNCHANGED <<pending, promise, timers, listeners, unlisteners, delivered>>

\* WsTransport.handleMessage (transport.ts 360-387).
handleMessage(msg, act) ==
    CASE msg.type \in {"response", "error"} /\ msg.id # NoId ->
           /\ IF msg.id \in DOMAIN pending
              THEN /\ timers' = [timers EXCEPT ![pending[msg.id].timeout] = NoTimer]
                   /\ pending' = MapRemove(pending, msg.id)
                   /\ promise' = IF msg.type = "response"
                                 THEN settle(pending[msg.id].promise, "resolved", msg.data)
                                 ELSE settle(pending[msg.id].promise, "rejected",
                                             errorText(msg.error))
              ELSE UNCHANGED <<pending, promise, timers>>
           /\ UNCHANGED <<listeners, unlisteners, delivered>>
      [] msg.type = "event" /\ msg.event # "" ->
           /\ LET r == IF msg.event \in DOMAIN listeners
                       THEN fanOut(msg.event, listeners[msg.event],
                                   [L |-> listeners, U |-> unlisteners, D |-> <<>>], act)
                       ELSE [L |-> listeners, U |-> unlisteners, D |-> <<>>]
              IN /\ listeners' = r.L
                 /\ unlisteners' = r.U
                 /\ delivered' = r.D
           /\ UNCHANGED <<pending, promise, timers>>
      [] OTHER -> UNCHANGED <<pending, promise, timers, listeners, unlisteners, delivered>>

\* Messages the backend can send: answers to requests it has received, answers
\* bearing an id that was never issued or no id, events, and malformed text.
SentIds == {wire[k].id : k \in 1..Len(wire)}

AnswerIds == SentIds \cup {BogusId, NoId}

Inbound ==
    {[type |-> "response", id |-> i, data |-> dataOf(i), error |-> NoPayload,
      event |-> ""] : i \in AnswerIds}
    \cup {[type |-> "error", id |-> i, data |-> NoPayload, error |-> errorOf(i),
           event |-> ""] : i \in AnswerIds}
    \cup {[type |-> "error", id |-> i, data |-> NoPayload, error |-> NoPayload,
           event |-> ""] : i \in AnswerIds}
    \cup {[type |-> "event", id |-> NoId, data |-> NoPayload, error |-> NoPayload,
           event |-> e] : e \in Events}
    \cup {[type |-> "malformed", id |-> NoId, data |-> NoPayload, error |-> NoPayload,
           event |-> ""]}

\* The frames that parse to a message.
WellFormed == {m \in Inbound : m.type # "malformed"}

\* Mutant: a frame that does not parse closes the socket.
SocketMessageTearsDown(s, msg) ==
    /\ s \in 1..Len(socks)
    /\ readyState(s) = "OPEN"
    /\ ~socks[s].errored
    /\ msg \in Inbound
    /\ IF msg.type = "malformed"
       THEN /\ dropped < MaxDropped
            /\ dropped' = dropped + 1
            /\ socks' = [socks EXCEPT ![s].state = "CLOSING"]
            /\ UNCHANGED <<pending, promise, timers, listeners, unlisteners, delivered>>
       ELSE /\ \E act \in [handlersOf(msg) -> HandlerActs] : handleMessage(msg, act)
            /\ UNCHANGED <<dropped, socks>>
    /\ observe
    /\ UNCHANGED <<native, loaded, connVars, nextId, ws, _connected, _wsConnected,
                   retryVars, queue, wire, bridgeCalls, appVars>>

\* ws.onmessage (transport.ts 287-294): JSON.parse failures are swallowed.  A
\* socket delivers messages while it is OPEN: the peer's Close frame, which puts
\* it in CLOSING, is the last frame it sends.
SocketMessage(s, msg) ==
    /\ s \in 1..Len(socks)
    /\ readyState(s) = "OPEN"
    /\ ~socks[s].errored
    /\ msg \in Inbound
    /\ IF msg.type = "malformed"
       THEN /\ dropped < MaxDropped
            /\ dropped' = dropped + 1
            /\ UNCHANGED <<pending, promise, timers, listeners, unlisteners, delivered>>
       ELSE /\ \E act \in [handlersOf(msg) -> HandlerActs] : handleMessage(msg, act)
            /\ UNCHANGED dropped
    /\ observe
    /\ UNCHANGED <<native, loaded, connVars, nextId, sockVars, retryVars,
                   queue, wire, bridgeCalls, appVars>>

\* ------------------------------------------------------------------------
\* Socket lifecycle callbacks (transport.ts 275-303)
\* ------------------------------------------------------------------------
\* Mutant: setConnected does not tell the environment module.
setConnectedLocal(value) ==
    /\ _connected' = value
    /\ _wsConnected' = _wsConnected

\* setConnected (transport.ts 177-181).
setConnected(value) ==
    /\ _connected' = value
    /\ _wsConnected' = value

\* Mutant: onopen flushes the queue but does not empty it.
SocketOpenKeepsQueue(s) ==
    /\ s \in 1..Len(socks)
    /\ readyState(s) = "CONNECTING"
    /\ ~socks[s].errored
    /\ socks' = [socks EXCEPT ![s].state = "OPEN"]
    /\ setConnected(TRUE)
    /\ reconnectAttempt' = 0
    /\ wire' = IF socks'[ws].state = "OPEN" THEN send(ws, queue) ELSE wire
    /\ UNCHANGED <<native, loaded, connVars, reqVars, ws, reconnectTimer, lsnVars,
                   bridgeCalls, queue, appVars>>

\* Mutant: onopen flushes the queue from its newest entry to its oldest.
SocketOpenLifo(s) ==
    /\ s \in 1..Len(socks)
    /\ readyState(s) = "CONNECTING"
    /\ ~socks[s].errored
    /\ socks' = [socks EXCEPT ![s].state = "OPEN"]
    /\ setConnected(TRUE)
    /\ reconnectAttempt' = 0
    /\ wire' = IF socks'[ws].state = "OPEN"
               THEN send(ws, [k \in 1..Len(queue) |-> queue[Len(queue) + 1 - k]])
               ELSE wire
    /\ queue' = <<>>
    /\ UNCHANGED <<native, loaded, connVars, reqVars, ws, reconnectTimer, lsnVars,
                   bridgeCalls, appVars>>

\* ws.onopen of socket s (transport.ts 275-285).
SocketOpen(s) ==
    /\ s \in 1..Len(socks)
    /\ readyState(s) = "CONNECTING"
    /\ ~socks[s].errored
    /\ socks' = [socks EXCEPT ![s].state = "OPEN"]
    /\ setConnected(TRUE)
    /\ reconnectAttempt' = 0
    /\ wire' = IF socks'[ws].state = "OPEN" THEN send(ws, queue) ELSE wire
    /\ queue' = <<>>
    /\ UNCHANGED <<native, loaded, connVars, reqVars, ws, reconnectTimer, lsnVars,
                   bridgeCalls, appVars>>

\* ws.onerror of socket s (transport.ts 301-303): the handler does nothing.
SocketError(s) ==
    /\ s \in 1..Len(socks)
    /\ readyState(s) # "CLOSED"
    /\ ~socks[s].errored
    /\ socks' = [socks EXCEPT ![s].errored = TRUE]
    /\ UNCHANGED <<native, loaded, connVars, reqVars, ws, _connected, _wsConnected,
                   retryVars, lsnVars, queue, wire, bridgeCalls, appVars>>

\* The closing handshake of socket s starts: readyState becomes CLOSING, no
\* callback runs.
SocketClosing(s) ==
    /\ s \in 1..Len(socks)
    /\ readyState(s) = "OPEN"
    /\ socks' = [socks EXCEPT ![s].state = "CLOSING"]
    /\ UNCHANGED <<native, loaded, connVars, reqVars, ws, _connected, _wsConnected,
                   retryVars, lsnVars, queue, wire, bridgeCalls, appVars>>

\* Mutant: onclose rejects every pending request and empties the table.
SocketCloseRejectsPending(s) ==
    /\ s \in 1..Len(socks)
    /\ readyState(s) # "CLOSED"
    /\ canSchedule(_authError)
    /\ socks' = [socks EXCEPT ![s] = [state |-> "CLOSED", errored |-> FALSE]]
    /\ setConnected(FALSE)
    /\ scheduleReconnect(_authError)
    /\ pending' = EmptyMap
    /\ timers' = [i \in Ids |-> NoTimer]
    /\ promise' = [i \in Ids |->
                      IF i \in DOMAIN pending
                      THEN [state |-> "rejected", value |-> UnknownError,
                            settles |-> promise[i].settles + 1]
                      ELSE promise[i]]
    /\ observe
    /\ UNCHANGED <<native, loaded, connVars, nextId, ws, lsnVars, queue, wire,
                   bridgeCalls, appVars>>

\* Mutant: onclose puts the commands of the requests that are still pending
\* back into the queue.
SocketCloseRequeues(s) ==
    /\ s \in 1..Len(socks)
    /\ readyState(s) # "CLOSED"
    /\ canSchedule(_authError)
    /\ socks' = [socks EXCEPT ![s] = [state |-> "CLOSED", errored |-> FALSE]]
    /\ setConnected(FALSE)
    /\ scheduleReconnect(_authError)
    /\ queue' = queue \o [k \in 1..Len(SelectSeq(wire, LAMBDA m : m.id \in DOMAIN pending)) |->
                          invokeMsg(SelectSeq(wire, LAMBDA m : m.id \in DOMAIN pending)[k].id,
                                    SelectSeq(wire, LAMBDA m : m.id \in DOMAIN pending)[k].command)]
    /\ UNCHANGED <<native, loaded, connVars, reqVars, ws, lsnVars, wire,
                   bridgeCalls, appVars>>

\* ws.onclose of socket s (transport.ts 296-299).
SocketClose(s) ==
    /\ s \in 1..Len(socks)
    /\ readyState(s) # "CLOSED"
    /\ canSchedule(_authError)
    /\ socks' = [socks EXCEPT ![s] = [state |-> "CLOSED", errored |-> FALSE]]
    /\ setConnected(FALSE)
    /\ scheduleReconnect(_authError)
    /\ UNCHANGED <<native, loaded, connVars, reqVars, ws, lsnVars, queue, wire,
                   bridgeCalls, appVars>>

\* ------------------------------------------------------------------------
\* listen and the closure it returns (transport.ts 339-358)
\* ------------------------------------------------------------------------
\* Mutant: listen registers the handler and leaves the connection alone.
wsListenPassive(e, h) ==
    /\ Len(unlisteners) < MaxListens
    /\ listeners' = MapSet(listeners, e,
                           SetAdd(IF e \in DOMAIN listeners THEN listeners[e] ELSE <<>>, h))
    /\ unlisteners' = Append(unlisteners, [event |-> e, handler |-> h, calls |-> 0])
    /\ UNCHANGED <<connVars, reqVars, sockVars, retryVars, delivered, dropped, queue, wire,
                   bridgeCalls>>

\* WsTransport.listen (transport.ts 339-358).
wsListen(e, h) ==
    /\ Len(unlisteners) < MaxListens
    /\ listeners' = MapSet(listeners, e,
                           SetAdd(IF e \in DOMAIN listeners THEN listeners[e] ELSE <<>>, h))
    /\ unlisteners' = Append(unlisteners, [event |-> e, handler |-> h, calls |-> 0])
    /\ connect
    /\ UNCHANGED <<reqVars, sockVars, retryVars, delivered, dropped, queue, wire,
                   bridgeCalls>>

\* listen of the facade (transport.ts 58-67).
Listen(e, h) ==
    /\ loaded
    /\ IF native
       THEN bridgeCall
       ELSE wsListen(e, h)
    /\ UNCHANGED <<native, loaded, appVars>>

\* The closure returned by listen (transport.ts 352-357).
Unlisten(k) ==
    /\ k \in 1..Len(unlisteners)
    /\ listeners' = unlistenApply(listeners, unlisteners[k].event, unlisteners[k].handler)
    /\ unlisteners' = called(unlisteners, k)
    /\ UNCHANGED <<native, loaded, connVars, reqVars, sockVars, retryVars,
                   delivered, dropped, queue, wire, bridgeCalls, appVars>>

\* ------------------------------------------------------------------------
\* Time
\* ------------------------------------------------------------------------
LiveDelays == {timers[i] : i \in {j \in Ids : timers[j] # NoTimer}}

\* The request clock: time passes by d, at most until the next live request
\* timer is due; a due timer fires before time passes again.  The reconnect
\* timer is not tied to this clock: its delay elapses at any moment
\* (ElapseReconnect).
Advance(d) ==
    /\ LiveDelays # {}
    /\ d > 0
    /\ d <= SetMin(LiveDelays)
    /\ timers' = [i \in Ids |-> IF timers[i] = NoTimer THEN NoTimer ELSE timers[i] - d]
    /\ elapsed' = [i \in Ids |-> IF Unsettled(i) THEN elapsed[i] + d ELSE elapsed[i]]
    /\ UNCHANGED <<native, loaded, connVars, pending, promise, nextId, sockVars,
                   retryVars, lsnVars, queue, wire, bridgeCalls, appVars>>

\* The steps of the clock: to the next due timer, or half a request timeout.
ClockSteps == {SetMin(LiveDelays \cup {RequestTimeoutMs}), RequestTimeoutMs \div 2}

\* Without a clock: the delay of request timer t elapses, whatever the other
\* timers have left.
ElapseRequest(t) ==
    /\ timers[t] > 0
    /\ timers' = [timers EXCEPT ![t] = 0]
    /\ UNCHANGED <<native, loaded, connVars, pending, promise, elapsed, nextId, sockVars,
                   retryVars, lsnVars, queue, wire, bridgeCalls, appVars>>

\* The delay of the reconnect timer elapses.
ElapseReconnect ==
    /\ reconnectTimer > 0
    /\ reconnectTimer' = 0
    /\ UNCHANGED <<native, loaded, connVars, reqVars, sockVars, reconnectAttempt,
                   lsnVars, queue, wire, bridgeCalls, appVars>>

\* ------------------------------------------------------------------------
\* Bootstrap preloader (transport.ts 82-125)
\* ------------------------------------------------------------------------
\* hasBackend() (part_002 16-21).
hasBackend == native \/ _wsConnected

\* hasPreloadedData() (transport.ts 123-125).
hasPreloadedData == initialDataResolved

\* The promise the async body of preloadInitialData creates (transport.ts
\* 96-115): without a token it is fulfilled with null at once, with one the
\* fetch of /api/init is issued.
newInitPromise ==
    IF resolvedToken = NoTok
    THEN [state |-> "fulfilled", value |-> NullData, fetch |-> "none",
          token |-> NoTok, body |-> NullData]
    ELSE [state |-> "pending", value |-> NullData, fetch |-> "sent",
          token |-> resolvedToken, body |-> NullData]

\* Mutant: a cached promise that yielded null is replaced by a new attempt.
preloadInitialDataRetries ==
    IF native
    THEN /\ preloadCalls' = Append(preloadCalls, [ref |-> 0, got |-> "waiting"])
         /\ UNCHANGED <<initialDataPromise, initPromises>>
    ELSE IF /\ initialDataPromise # 0
            /\ ~(/\ initPromises[initialDataPromise].state = "fulfilled"
                 /\ initPromises[initialDataPromise].value = NullData)
    THEN /\ preloadCalls' = Append(preloadCalls,
                                   [ref |-> initialDataPromise, got |-> "waiting"])
         /\ UNCHANGED <<initialDataPromise, initPromises>>
    ELSE /\ initPromises' = Append(initPromises, newInitPromise)
         /\ initialDataPromise' = Len(initPromises) + 1
         /\ preloadCalls' = Append(preloadCalls,
                                   [ref |-> Len(initPromises) + 1, got |-> "waiting"])

\* preloadInitialData() (transport.ts 92-118); the caller is the effect of
\* App (part_005 276) or any other code.
preloadInitialData ==
    IF native
    THEN /\ preloadCalls' = Append(preloadCalls, [ref |-> 0, got |-> "waiting"])
         /\ UNCHANGED <<initialDataPromise, initPromises>>
    ELSE IF initialDataPromise # 0
    THEN /\ preloadCalls' = Append(preloadCalls,
                                   [ref |-> initialDataPromise, got |-> "waiting"])
         /\ UNCHANGED <<initialDataPromise, initPromises>>
    ELSE /\ initPromises' = Append(initPromises, newInitPromise)
         /\ initialDataPromise' = Len(initPromises) + 1
         /\ preloadCalls' = Append(preloadCalls,
                                   [ref |-> Len(initPromises) + 1, got |-> "waiting"])

PreloadCall ==
    /\ loaded
    /\ Len(preloadCalls) < MaxPreloadCalls
    /\ preloadInitialData
    /\ UNCHANGED <<native, loaded, connVars, reqVars, sockVars, retryVars, lsnVars, queue,
                   wire, bridgeCalls, initialDataResolved, cache, store, srvVer,
                   seenConnected, uiVars, prEffects>>

\* The backend (or the network) answers the fetch of /api/init made for promise
\* p: a network error, a non-OK status, a body that is not JSON or, for a valid
\* token, the snapshot of its data.
InitAnswer(p, r, shape, rv, wt) ==
    /\ p \in 1..Len(initPromises)
    /\ initPromises[p].fetch = "sent"
    /\ r \in {"neterr", "notok", "badjson"}
             \cup (IF initPromises[p].token \in ValidTokens THEN {"ok"} ELSE {})
    /\ initPromises' =
          [initPromises EXCEPT ![p].fetch = r,
                               ![p].body = IF r = "ok"
                                           THEN Snapshot(shape, rv, wt, srvVer)
                                           ELSE NullData]
    /\ UNCHANGED <<native, loaded, connVars, reqVars, sockVars, retryVars, lsnVars, queue,
                   wire, bridgeCalls, initialDataPromise, initialDataResolved,
                   preloadCalls, cache, store, srvVer, seenConnected, uiVars, prEffects>>

\* Mutant: response.json() is awaited outside the try block; a body that does
\* not parse rejects the promise.
preloadResumeUncaught(p) ==
    /\ p \in 1..Len(initPromises)
    /\ initPromises[p].fetch \in {"neterr", "notok", "badjson", "ok"}
    /\ initPromises' =
          [initPromises EXCEPT ![p].fetch = "done",
                               ![p].state = IF initPromises[p].fetch = "badjson"
                                            THEN "rejected" ELSE "fulfilled",
                               ![p].value = IF initPromises[p].fetch = "ok"
                                            THEN initPromises[p].body
                                            ELSE NullData]
    /\ initialDataResolved' = (initialDataResolved \/ initPromises[p].fetch = "ok")
    /\ UNCHANGED <<native, loaded, connVars, reqVars, sockVars, retryVars, lsnVars, queue,
                   wire, bridgeCalls, initialDataPromise, preloadCalls, cache, store,
                   srvVer, seenConnected, uiVars, prEffects>>

\* The async body of preloadInitialData after its awaits (transport.ts 104-114).
preloadResume(p) ==
    /\ p \in 1..Len(initPromises)
    /\ initPromises[p].fetch \in {"neterr", "notok", "badjson", "ok"}
    /\ initPromises' =
          [initPromises EXCEPT ![p].fetch = "done",
                               ![p].state = "fulfilled",
                               ![p].value = IF initPromises[p].fetch = "ok"
                                            THEN initPromises[p].body
                                            ELSE NullData]
    /\ initialDataResolved' = (initialDataResolved \/ initPromises[p].fetch = "ok")
    /\ UNCHANGED <<native, loaded, connVars, reqVars, sockVars, retryVars, lsnVars, queue,
                   wire, bridgeCalls, initialDataPromise, preloadCalls, cache, store,
                   srvVer, seenConnected, uiVars, prEffects>>

\* ------------------------------------------------------------------------
\* The query cache and the chat store (part_005 184-325)
\* ------------------------------------------------------------------------
\* queryClient.setQueryData(key, value): the entry holds the value and is fresh.
setQueryData(c, k, src, ver) == [c EXCEPT ![k] = [src |-> src, ver |-> ver, stale |-> FALSE]]

\* The cache writes of seedCache (part_005 195-203, 212-213, 260-273), one per
\* field that carries a value.
seedQueries(c, data) ==
    [k \in Keys |->
        IF \E f \in data.has : keyOf(f) = k
        THEN [src |-> "snapshot", ver |-> data.ver, stale |-> FALSE]
        ELSE c[k]]

flag(b) == IF b THEN "true" ELSE "false"

\* A merge that flips a flag that is already set instead of setting it.
seedStoreToggles(st, data) ==
    IF "sessionsByWorktree" \in data.has
    THEN [sessionWorktreeMap |-> "w1",
          worktreePaths |-> IF "worktreesByProject" \in data.has
                            THEN "path1" ELSE st.worktreePaths,
          reviewingSessions |->
             IF data.reviewing
             THEN (IF st.reviewingSessions = "true" THEN "false" ELSE "true")
             ELSE st.reviewingSessions,
          waitingForInputSessionIds |->
             IF data.waiting
             THEN (IF st.waitingForInputSessionIds = "true" THEN "false" ELSE "true")
             ELSE st.waitingForInputSessionIds]
    ELSE st

\* The store writes of seedCache (part_005 206-258): made only when
\* sessionsByWorktree carries a value; a flag is written only when it is set.
seedStore(st, data) ==
    IF "sessionsByWorktree" \in data.has
    THEN [sessionWorktreeMap |-> "w1",
          worktreePaths |-> IF "worktreesByProject" \in data.has
                            THEN "path1" ELSE st.worktreePaths,
          reviewingSessions |-> IF data.reviewing THEN "true" ELSE st.reviewingSessions,
          waitingForInputSessionIds |->
             IF data.waiting THEN "true" ELSE st.waitingForInputSessionIds]
    ELSE st

\* seedCache(data) (part_005 193-274).
seedCache(data) ==
    /\ cache' = seedQueries(cache, data)
    /\ store' = seedStore(store, data)

\* Mutant: the loading screen is dismissed by the then-callback, once it has
\* seeded a snapshot, and there is no finally.
AppPreloadThenNoFinally(k) ==
    /\ k \in 1..Len(preloadCalls)
    /\ preloadCalls[k].got = "waiting"
    /\ preloadCalls[k].ref # 0 => initPromises[preloadCalls[k].ref].state # "pending"
    /\ LET ref == preloadCalls[k].ref
           data == IF ref = 0 THEN NullData ELSE initPromises[ref].value
           rejected == ref # 0 /\ initPromises[ref].state = "rejected"
       IN /\ preloadCalls' =
                [preloadCalls EXCEPT ![k].got =
                    IF rejected THEN "rejected"
                    ELSE IF data = NullData THEN "null" ELSE "data"]
          /\ IF ~rejected /\ data # NullData
             THEN seedCache(data)
             ELSE UNCHANGED <<cache, store>>
    /\ isPreloading' =
          IF preloadCalls'[k].got = "data" THEN FALSE ELSE isPreloading
    /\ UNCHANGED <<native, loaded, connVars, reqVars, sockVars, retryVars, lsnVars, queue,
                   wire, bridgeCalls, initialDataPromise, initPromises,
                   initialDataResolved, srvVer, seenConnected, mounted, prEffects>>

\* The callbacks App chains on the promise of call k (part_005 276-290): then,
\* catch, and finally, which dismisses the loading screen.
AppPreloadThen(k) ==
    /\ k \in 1..Len(preloadCalls)
    /\ preloadCalls[k].got = "waiting"
    /\ preloadCalls[k].ref # 0 => initPromises[preloadCalls[k].ref].state # "pending"
    /\ LET ref == preloadCalls[k].ref
           data == IF ref = 0 THEN NullData ELSE initPromises[ref].value
           rejected == ref # 0 /\ initPromises[ref].state = "rejected"
       IN /\ preloadCalls' =
                [preloadCalls EXCEPT ![k].got =
                    IF rejected THEN "rejected"
                    ELSE IF data = NullData THEN "null" ELSE "data"]
          /\ IF ~rejected /\ data # NullData
             THEN seedCache(data)
             ELSE UNCHANGED <<cache, store>>
    /\ isPreloading' = FALSE
    /\ UNCHANGED <<native, loaded, connVars, reqVars, sockVars, retryVars, lsnVars, queue,
                   wire, bridgeCalls, initialDataPromise, initPromises,
                   initialDataResolved, srvVer, seenConnected, mounted, prEffects>>

\* The keys the invalidation pass skips (part_005 321).
SkippedHeads == {"projects", "preferences", "ui-state", "chat"}

\* queryClient.invalidateQueries({predicate}) (part_005 317-323) over the
\* queries that exist.
invalidateQueries(c) ==
    [k \in Keys |->
        IF c[k].src # "none" /\ keyHead(k) \notin SkippedHeads
        THEN [c[k] EXCEPT !.stale = TRUE]
        ELSE c[k]]

\* The effect of App on wsConnected (part_005 312-325): it runs after the
\* render that sees a changed value.
AppConnectionEffect ==
    /\ loaded
    /\ seenConnected # _connected
    /\ seenConnected' = _connected
    /\ cache' = IF ~native /\ _connected THEN invalidateQueries(cache) ELSE cache
    /\ UNCHANGED <<native, loaded, connVars, reqVars, sockVars, retryVars, lsnVars, queue,
                   wire, bridgeCalls, preVars, store, srvVer, uiVars, prEffects>>

\* The queryFn of a query runs, when the query has no data yet or was
\* invalidated.  usePreferences (part_005 45-77) and useUIState (part_004
\* 17-41) return the defaults without a backend; with one, and for every other
\* query, the value comes over the socket.
QueryFetch(k) ==
    /\ loaded
    /\ k \in Keys
    /\ cache[k].src = "none" \/ cache[k].stale
    /\ IF k \in {"preferences", "ui-state"} /\ ~hasBackend
       THEN cache' = setQueryData(cache, k, "default", -1)
       ELSE /\ hasBackend
            /\ native \/ WsOpen
            /\ cache' = setQueryData(cache, k, "live", srvVer)
    /\ UNCHANGED <<native, loaded, connVars, reqVars, sockVars, retryVars, lsnVars, queue,
                   wire, bridgeCalls, preVars, store, srvVer, seenConnected, uiVars, prEffects>>

\* The backend's data changes and the event it pushes over the open socket
\* updates the cache entry of key k.
LiveUpdate(k) ==
    /\ loaded
    /\ ~native
    /\ WsOpen
    /\ k \in Keys
    /\ srvVer < MaxLive
    /\ srvVer' = srvVer + 1
    /\ cache' = setQueryData(cache, k, "live", srvVer + 1)
    /\ UNCHANGED <<native, loaded, connVars, reqVars, sockVars, retryVars, lsnVars, queue,
                   wire, bridgeCalls, preVars, store, seenConnected, uiVars, prEffects>>

\* An event over the open socket sets or clears the reviewing flag of the
\* session in the chat store.
StoreEvent(b) ==
    /\ loaded
    /\ ~native
    /\ WsOpen
    /\ srvVer < MaxLive
    /\ srvVer' = srvVer + 1
    /\ store' = [store EXCEPT !.reviewingSessions = flag(b)]
    /\ UNCHANGED <<native, loaded, connVars, reqVars, sockVars, retryVars, lsnVars, queue,
                   wire, bridgeCalls, preVars, cache, seenConnected, uiVars, prEffects>>

\* promise.then(callback) on promise p (transport.ts 134): the callback is
\* queued as a microtask and has not run when then() returns, whether p is
\* settled or not, so the variable it assigns still holds what it held.
afterThen(p, result) == result

\* getPreloadedData() (transport.ts 130-136): the value it returns.
getPreloadedData ==
    IF ~initialDataResolved \/ initialDataPromise = 0
    THEN NullData
    ELSE afterThen(initPromises[initialDataPromise], NullData)

\* listen of the facade (transport.ts 58-67), as called by a hook.
listen(e, h) == IF native THEN bridgeCall ELSE wsListen(e, h)

\* The event name of usePrStatusEvents (pr-status.ts 48).
PrStatusUpdate == "e1"

\* The handlers that effect runs have passed to listen so far; every run
\* creates a new one (pr-status.ts 48).
prHandlers == {prEffects[i].handler : i \in 1..Len(prEffects)}

\* A run of the effect of a mounted usePrStatusEvents (pr-status.ts 41-81),
\* after the cleanup of the run before it.  tauri is the answer of isTauri();
\* the run ends at once when it is false.  The listen promise is pending when
\* the effect returns, and unlistens is empty.
PrEffectRun(tauri, h) ==
    /\ loaded
    /\ tauri
    /\ h \in Handlers \ prHandlers
    /\ \A i \in 1..Len(prEffects) : prEffects[i].cleaned
    /\ listen(PrStatusUpdate, h)
    /\ prEffects' = Append(prEffects,
                           [handler |-> h,
                            closure |-> IF native THEN 0 ELSE Len(unlisteners) + 1,
                            filled |-> FALSE, cleaned |-> FALSE])
    /\ UNCHANGED <<native, loaded, preVars, cache, store, srvVer, seenConnected, uiVars>>

\* The listen promise of run i has resolved and the then-callback of
\* Promise.all pushes the closure into unlistens (pr-status.ts 74-76).
PrThen(i) ==
    /\ i \in 1..Len(prEffects)
    /\ ~prEffects[i].filled
    /\ prEffects' = [prEffects EXCEPT ![i].filled = TRUE]
    /\ UNCHANGED <<native, loaded, connVars, reqVars, sockVars, retryVars, lsnVars, queue,
                   wire, bridgeCalls, preVars, cache, store, srvVer, seenConnected, uiVars>>

\* The cleanup of run i (pr-status.ts 78-80): it calls what unlistens holds
\* at that moment.
PrCleanup(i) ==
    /\ i \in 1..Len(prEffects)
    /\ ~prEffects[i].cleaned
    /\ prEffects' = [prEffects EXCEPT ![i].cleaned = TRUE]
    /\ IF prEffects[i].filled /\ prEffects[i].closure # 0
       THEN /\ listeners' = unlistenApply(listeners, unlisteners[prEffects[i].closure].event,
                                          unlisteners[prEffects[i].closure].handler)
            /\ unlisteners' = called(unlisteners, prEffects[i].closure)
       ELSE UNCHANGED <<listeners, unlisteners>>
    /\ UNCHANGED <<native, loaded, connVars, reqVars, sockVars, retryVars, delivered,
                   dropped, queue, wire, bridgeCalls, preVars, cache, store, srvVer,
                   seenConnected, uiVars>>

\* The first render of App (part_005 184-186): useState(!isNativeApp()).
AppRender ==
    /\ loaded
    /\ ~mounted
    /\ mounted' = TRUE
    /\ isPreloading' = ~native
    /\ UNCHANGED <<native, loaded, connVars, reqVars, sockVars, retryVars, lsnVars, queue,
                   wire, bridgeCalls, preVars, cache, store, srvVer, seenConnected,
                   prEffects>>

\* The preload effect of App (part_005 190-191, 276): it returns at once in
\* native mode and calls the preloader otherwise.
AppEffect ==
    /\ mounted
    /\ ~native
    /\ PreloadCall

\* The loading screen is what App renders (part_005 532-535).
WebLoadingScreenShown == mounted /\ isPreloading

\* ------------------------------------------------------------------------
\* Specifications
\* ------------------------------------------------------------------------
\* The connection state machine; sockets close without a closing handshake.
ConnAbrupt ==
    \/ ModuleLoad
    \/ \E r \in {"ok", "rejected", "failed"} : AuthAnswer(r)
    \/ validateAndConnectResume
    \/ ReconnectTimerFire
    \/ ElapseReconnect
    \/ \E s \in 1..MaxSockets : SocketOpen(s)
    \/ \E s \in 1..MaxSockets : SocketClose(s)

\* The connection state machine.
Conn ==
    \/ ConnAbrupt
    \/ \E s \in 1..MaxSockets : SocketClosing(s)

\* The request path; every inbound frame parses.
Requests ==
    \/ \E c \in Commands : Invoke(c)
    \/ \E t \in Ids : RequestTimeout(t)
    \/ \E s \in 1..MaxSockets : \E msg \in WellFormed : SocketMessage(s, msg)

\* Spec: requests and their correlation.  Timers become due in any order; at
\* most MaxRetries reconnects are scheduled in a row.
Next ==
    \/ Conn /\ reconnectAttempt' <= MaxRetries
    \/ Requests
    \/ \E t \in Ids : ElapseRequest(t)

Spec == Init /\ [][Next]_vars

\* SpecAuth: tokens, validation and reconnection, with listen calls, socket
\* errors and tokens persisted by other page loads.  One command is issued, which the
\* backend never answers, and one handler is registered.
NextAuth ==
    \/ Conn
    \/ \E c \in Commands : nextId = 1 /\ Invoke(c)
    \/ \E e \in Events, h \in Handlers : unlisteners = <<>> /\ Listen(e, h)
    \/ \E k \in 1..MaxListens : Unlisten(k)
    \/ \E t \in Tokens : StoreToken(t)
    \/ \E s \in 1..MaxSockets : SocketError(s)

SpecAuth == Init /\ [][NextAuth]_vars

\* SpecTimed: requests and their correlation with a clock for the request
\* timers; sockets fail and close without a closing handshake.  Timers fire once they are
\* due (the event loop runs due timer callbacks), and time does not stop.
NextTimed ==
    \/ ConnAbrupt
    \/ \E s \in 1..MaxSockets : SocketError(s)
    \/ Requests
    \/ \E d \in ClockSteps : Advance(d)

SpecTimed ==
    /\ Init
    /\ [][NextTimed]_vars
    /\ WF_vars(\E d \in ClockSteps : Advance(d))
    /\ \A t \in Ids : WF_vars(RequestTimeout(t))

\* SpecListen: handlers are registered and unregistered, by the application
\* and by handlers during fan-out, while events and other messages come in; at
\* most MaxRetries reconnects are scheduled in a row.
NextListen ==
    \/ ConnAbrupt /\ reconnectAttempt' <= MaxRetries
    \/ \E e \in Events, h \in Handlers : Listen(e, h)
    \/ \E k \in 1..MaxListens : Unlisten(k)
    \/ \E s \in 1..MaxSockets : \E msg \in WellFormed : SocketMessage(s, msg)

SpecListen == Init /\ [][NextListen]_vars

\* The environment probe changes its answer: window gains or loses
\* __TAURI_INTERNALS__ (part_002 12-13).  Nothing in the program prevents it.
ProbeChange ==
    /\ loaded
    /\ native' = ~native
    /\ UNCHANGED <<loaded, connVars, reqVars, sockVars, retryVars, lsnVars, queue, wire,
                   bridgeCalls, appVars>>

\* SpecFacade: invoke and listen calls over a connection that does not fail,
\* in a process whose environment probe can change its answer between calls.
NextFacade ==
    \/ ModuleLoad
    \/ \E r \in {"ok", "rejected"} : AuthAnswer(r)
    \/ validateAndConnectResume
    \/ \E s \in 1..MaxSockets : SocketOpen(s)
    \/ \E c \in Commands : Invoke(c)
    \/ \E e \in Events, h \in Handlers : Listen(e, h)
    \/ ProbeChange

SpecFacade == Init /\ [][NextFacade]_vars

\* SpecParse: requests and the events of one handler over a connection that
\* does not fail, with inbound frames that do not parse.  No request times out.
NextParse ==
    \/ ModuleLoad
    \/ \E r \in {"ok", "rejected"} : AuthAnswer(r)
    \/ validateAndConnectResume
    \/ \E s \in 1..MaxSockets : SocketOpen(s)
    \/ \E c \in Commands : Invoke(c)
    \/ \E e \in Events, h \in Handlers : unlisteners = <<>> /\ Listen(e, h)
    \/ \E s \in 1..MaxSockets : \E msg \in Inbound : SocketMessage(s, msg)

SpecParse == Init /\ [][NextParse]_vars

\* SpecLive: the connection state machine with a backend that ends up
\* reachable.  Failures are the environment's choice, and the model gives it a
\* budget: every failed pre-flight check, closing handshake and socket close
\* counts against MaxAttempt until a socket opens, and a socket that is
\* connecting or open is lost only while another one can still be created.
\* The answers of the backend, the continuation of connect, the timer, and the
\* open and close events the browser owes are weakly fair.
ClosingSockets == {s \in 1..Len(socks) : readyState(s) = "CLOSING"}

FailureBudget ==
    reconnectAttempt + Cardinality(ClosingSockets)
       + (IF authFetch.status = "failed" THEN 1 ELSE 0) < MaxAttempt

AuthAnswerLive(r) == (r = "failed" => FailureBudget) /\ AuthAnswer(r)

SocketLost(s) ==
    /\ s \in 1..Len(socks)
    /\ readyState(s) \in {"CONNECTING", "OPEN"}
    /\ Len(socks) < MaxSockets
    /\ FailureBudget
    /\ (SocketClosing(s) \/ SocketClose(s))

SocketClosed(s) ==
    /\ s \in 1..Len(socks)
    /\ readyState(s) = "CLOSING"
    /\ SocketClose(s)

NextLive ==
    \/ ModuleLoad
    \/ \E r \in {"ok", "rejected", "failed"} : AuthAnswerLive(r)
    \/ validateAndConnectResume
    \/ ReconnectTimerFire
    \/ ElapseReconnect
    \/ \E s \in 1..MaxSockets : SocketOpen(s)
    \/ \E s \in 1..MaxSockets : SocketLost(s)
    \/ \E s \in 1..MaxSockets : SocketClosed(s)
    \/ \E c \in Commands : nextId = 1 /\ Invoke(c)
    \/ \E t \in Tokens : StoreToken(t)

SpecLive ==
    /\ Init
    /\ [][NextLive]_vars
    /\ WF_vars(ModuleLoad)
    /\ WF_vars(\E r \in {"ok", "rejected", "failed"} : AuthAnswerLive(r))
    /\ WF_vars(validateAndConnectResume)
    /\ WF_vars(ElapseReconnect)
    /\ WF_vars(ReconnectTimerFire)
    /\ WF_vars(\E s \in 1..MaxSockets : SocketOpen(s))
    /\ WF_vars(\E s \in 1..MaxSockets : SocketClosed(s))

\* SpecPreload: the preloader next to the transport: calls of
\* preloadInitialData in either mode and the answers to its fetch, over a
\* connection that can be refused, and lost and re-established once, with a
\* command issued at any moment and an environment probe that can change its
\* answer.
Answers ==
    \E p \in 1..MaxPreloadCalls, r \in {"neterr", "notok", "badjson", "ok"},
       shape \in SnapshotShapes, rv \in BOOLEAN, wt \in BOOLEAN :
       /\ "sessionsByWorktree" \notin shape => (~rv /\ ~wt)
       /\ InitAnswer(p, r, shape, rv, wt)

NextPreload ==
    \/ ModuleLoad
    \/ \E r \in {"ok", "rejected"} : AuthAnswer(r)
    \/ validateAndConnectResume
    \/ \E s \in 1..MaxSockets : SocketOpen(s)
    \/ \E s \in 1..MaxSockets : SocketClose(s) /\ reconnectAttempt' <= 1
    \/ ElapseReconnect
    \/ ReconnectTimerFire
    \/ ProbeChange
    \/ \E c \in Commands : nextId = 1 /\ Invoke(c)
    \/ PreloadCall
    \/ Answers
    \/ \E p \in 1..MaxPreloadCalls : preloadResume(p)
    \/ \E k \in 1..MaxPreloadCalls : AppPreloadThen(k)

SpecPreload == Init /\ [][NextPreload]_vars

\* SpecCache: the query cache and the chat store at startup: the preloader and
\* its merge (App calls preloadInitialData once), the effect of App on the
\* connection flag, the queries mounted by App and the events pushed over the
\* socket, over a connection that can be refused, and lost and re-established
\* once.
MountedKeys == {"preferences", "claude-cli"}
EventKeys == {"chat.session", "projects.list"}

NextCache ==
    \/ ModuleLoad
    \/ \E r \in {"ok", "rejected"} : AuthAnswer(r)
    \/ validateAndConnectResume
    \/ \E s \in 1..MaxSockets : SocketOpen(s)
    \/ \E s \in 1..MaxSockets : SocketClose(s) /\ reconnectAttempt' <= 1
    \/ ElapseReconnect
    \/ ReconnectTimerFire
    \/ preloadCalls = <<>> /\ PreloadCall
    \/ Answers
    \/ \E p \in 1..MaxPreloadCalls : preloadResume(p)
    \/ \E k \in 1..MaxPreloadCalls : AppPreloadThen(k)
    \/ AppConnectionEffect
    \/ \E k \in MountedKeys : QueryFetch(k)
    \/ \E k \in EventKeys : LiveUpdate(k)

SpecCache == Init /\ [][NextCache]_vars

\* SpecSeed: the merge of the snapshot, by every caller of the preloader, into
\* a cache and a store that pushed events write as well, over a connection
\* that does not fail.
NextSeed ==
    \/ ModuleLoad
    \/ \E r \in {"ok", "rejected"} : AuthAnswer(r)
    \/ validateAndConnectResume
    \/ \E s \in 1..MaxSockets : SocketOpen(s)
    \/ PreloadCall
    \/ Answers
    \/ \E p \in 1..MaxPreloadCalls : preloadResume(p)
    \/ \E k \in 1..MaxPreloadCalls : AppPreloadThen(k)
    \/ \E k \in EventKeys : LiveUpdate(k)
    \/ \E b \in BOOLEAN : StoreEvent(b)

SpecSeed == Init /\ [][NextSeed]_vars

\* SpecHook: a mounted usePrStatusEvents whose effect runs and is cleaned up
\* (unmount, or a change of its dependencies) at any moment, next to a
\* connection that can be refused, and lost and re-established once.
NextHook ==
    \/ ModuleLoad
    \/ \E r \in {"ok", "rejected"} : AuthAnswer(r)
    \/ validateAndConnectResume
    \/ \E s \in 1..MaxSockets : SocketOpen(s)
    \/ \E s \in 1..MaxSockets : SocketClose(s) /\ reconnectAttempt' <= 1
    \/ ElapseReconnect
    \/ ReconnectTimerFire
    \/ \E tauri \in BOOLEAN, h \in Handlers : PrEffectRun(tauri, h)
    \/ \E i \in 1..MaxListens : PrThen(i)
    \/ \E i \in 1..MaxListens : PrCleanup(i)

SpecHook == Init /\ [][NextHook]_vars

\* SpecBoot: the start of the application in either mode: the first render,
\* the preload effect (twice at most) and its callbacks, next to the
\* transport's first connection.  The probe does not change its answer.  The
\* module load, the render, the effect, the promise callbacks and the end of
\* the bootstrap fetch (an answer or a network error) are weakly fair.
NextBoot ==
    \/ ModuleLoad
    \/ \E r \in {"ok", "rejected"} : AuthAnswer(r)
    \/ validateAndConnectResume
    \/ \E s \in 1..MaxSockets : SocketOpen(s)
    \/ AppRender
    \/ AppEffect
    \/ Answers
    \/ \E p \in 1..MaxPreloadCalls : preloadResume(p)
    \/ \E k \in 1..MaxPreloadCalls : AppPreloadThen(k)

SpecBoot ==
    /\ Init
    /\ [][NextBoot]_vars
    /\ WF_vars(ModuleLoad)
    /\ WF_vars(AppRender)
    /\ WF_vars(AppEffect)
    /\ WF_vars(Answers)
    /\ WF_vars(\E p \in 1..MaxPreloadCalls : preloadResume(p))
    /\ WF_vars(\E k \in 1..MaxPreloadCalls : AppPreloadThen(k))

\* ------------------------------------------------------------------------
\* Claims
\* ------------------------------------------------------------------------
Settled(i) == promise[i].state \in {"resolved", "rejected"}

\* C1: resolve or reject is called at most once on the promise of every request;
\* a promise is settled only in the step that removes its id from the
\* correlation table, and once the id is out of the table (settled before, or
\* never issued) no step touches the promise or re-enters the id, so a later or
\* unknown-id message changes nothing.
C1SettledOnce == \A i \in Ids : promise[i].settles <= 1

C1Step ==
    \A i \in Ids :
       /\ (promise[i].state # "none" /\ i \notin DOMAIN pending) =>
             (promise'[i] = promise[i] /\ i \notin DOMAIN pending')
       /\ (i \in DOMAIN pending /\ i \notin DOMAIN pending') =>
             (Unsettled(i) /\ promise'[i].settles = 1 /\ timers'[i] = NoTimer)
       /\ (i \in DOMAIN pending /\ i \in DOMAIN pending') =>
             (pending'[i] = pending[i] /\ promise'[i] = promise[i])

C1Theorem == []C1SettledOnce /\ [][C1Step]_vars

\* A settled request whose id the backend has received, on an open socket: any
\* further answer to it finds no table entry.
C1Witness ==
    \E i \in Ids : Settled(i) /\ i \in SentIds /\ i \notin DOMAIN pending /\ WsOpen

\* C2: every request settles.  While its promise is unsettled its own timer is
\* live and due exactly RequestTimeoutMs after the invoke call, whatever the
\* connection does; a promise is rejected by the timeout exactly
\* RequestTimeoutMs after the call and is otherwise resolved by a response or
\* rejected by an error message before that; and under the event loop's fairness an unsettled promise is
\* eventually settled.
C2Bound ==
    \A i \in Ids :
       /\ Unsettled(i) =>
             (timers[i] # NoTimer /\ elapsed[i] + timers[i] = RequestTimeoutMs)
       /\ Settled(i) =>
             /\ promise[i].state = "resolved" => promise[i].value.text = "data"
             /\ promise[i].state = "rejected" =>
                   promise[i].value.text \in {"boom", "Unknown error", "timed out"}

C2Step ==
    \A i \in Ids :
       (Unsettled(i) /\ promise'[i].state = "rejected" /\ promise'[i].value = TimedOut)
          => elapsed[i] = RequestTimeoutMs

C2Live == \A i \in Ids : Unsettled(i) ~> Settled(i)

C2Theorem == []C2Bound /\ [][C2Step]_vars /\ C2Live

\* A request issued with no token at all (auth failed, no socket ever created)
\* has been rejected by its timeout.
C2Witness ==
    \E i \in Ids :
       /\ promise[i].state = "rejected"
       /\ promise[i].value = TimedOut
       /\ _authError # NoError
       /\ socks = <<>>

\* C3: an invoke made while the socket is not open appends its command to the
\* queue and writes nothing; a socket open event writes the whole queue to that
\* socket in queue order and empties it; the queue changes in no other way; and
\* no request is ever written twice or written while it is still queued.
C3Inv ==
    /\ \A k, l \in 1..Len(wire) : wire[k].id = wire[l].id => k = l
    /\ \A k \in 1..Len(queue) : queue[k].id \notin SentIds
    /\ \A k, l \in 1..Len(queue) : queue[k].id = queue[l].id => k = l

C3Queued ==
    /\ Len(queue') = Len(queue) + 1
    /\ SubSeq(queue', 1, Len(queue)) = queue
    /\ queue'[Len(queue')].id = nextId
    /\ wire' = wire

C3Flushed(s) ==
    /\ queue' = <<>>
    /\ Len(wire') = Len(wire) + Len(queue)
    /\ SubSeq(wire', 1, Len(wire)) = wire
    /\ \A k \in 1..Len(queue) :
          wire'[Len(wire) + k] =
             [sock |-> s, id |-> queue[k].id, command |-> queue[k].command]

C3Opens(s) == readyState(s) = "CONNECTING" /\ socks'[s].state = "OPEN"

C3Step ==
    /\ (nextId' = nextId + 1 /\ ~WsOpen) => C3Queued
    /\ \A s \in 1..Len(socks) : C3Opens(s) => C3Flushed(s)
    /\ queue' # queue =>
          \/ nextId' = nextId + 1 /\ ~WsOpen
          \/ \E s \in 1..Len(socks) : C3Opens(s)

C3Theorem == []C3Inv /\ [][C3Step]_vars

\* Two sockets have opened one after the other; the wire of the second carries
\* the second command only, not again the command the first socket carried.
C3Witness ==
    /\ Len(socks) = 2
    /\ readyState(1) = "CLOSED"
    /\ readyState(2) = "OPEN"
    /\ queue = <<>>
    /\ Len(wire) = 2
    /\ wire[1] = [sock |-> 1, id |-> 1, command |-> "get_data"]
    /\ wire[2] = [sock |-> 2, id |-> 2, command |-> "get_data"]
    /\ \A i \in Ids : Unsettled(i)

\* C4: requests are correlated by id alone.  Every table entry belongs to its
\* own unsettled promise and live timer; a promise is resolved only with the
\* data, and rejected only with the error, of a message bearing its own id (or
\* by its timeout); and the step that settles one request leaves the promise,
\* the table entry and the timer of every other request as they were, whatever
\* the order of the answers.
C4Inv ==
    \A i \in Ids :
       /\ promise[i].state = "resolved" => promise[i].value = dataOf(i)
       /\ promise[i].state = "rejected" =>
             promise[i].value \in {errorOf(i), UnknownError, TimedOut}
       /\ i \in DOMAIN pending =>
             /\ pending[i] = [promise |-> i, timeout |-> i]
             /\ Unsettled(i)
             /\ timers[i] # NoTimer

C4Step ==
    \A i \in Ids :
       (Unsettled(i) /\ promise'[i].state \in {"resolved", "rejected"}) =>
          \A j \in Ids \ {i} :
             /\ promise'[j] = promise[j]
             /\ timers'[j] = timers[j]
             /\ j \in DOMAIN pending =>
                   (j \in DOMAIN pending' /\ pending'[j] = pending[j])

C4Theorem == []C4Inv /\ [][C4Step]_vars

\* Two requests went out in the order 1, 2; the answer to the second has
\* arrived and resolved it while the first is still outstanding.
C4Witness ==
    /\ Len(wire) = 2
    /\ wire[1].id = 1
    /\ wire[2].id = 2
    /\ promise[2].state = "resolved"
    /\ promise[2].value = dataOf(2)
    /\ Unsettled(1)
    /\ 1 \in DOMAIN pending

\* C5: a socket close event and a socket error event settle no promise and
\* leave the correlation table, every request timer and every request clock as
\* they were; whatever happens to the connection, a promise is settled only by
\* its own timer, due RequestTimeoutMs after the invoke call, or by a message
\* bearing its id that arrives on an open socket.
C5Closes(s) == readyState(s) # "CLOSED" /\ socks'[s].state = "CLOSED"

C5Errors(s) == ~socks[s].errored /\ socks'[s].errored

C5Step ==
    /\ \A s \in 1..Len(socks) :
          (C5Closes(s) \/ C5Errors(s)) =>
             (pending' = pending /\ promise' = promise /\ timers' = timers
              /\ elapsed' = elapsed)
    /\ \A i \in Ids :
          (Unsettled(i) /\ promise'[i].state \in {"resolved", "rejected"}) =>
             \/ /\ promise'[i].value = TimedOut
                /\ timers[i] = 0
                /\ elapsed[i] = RequestTimeoutMs
             \/ /\ promise'[i].value \in {dataOf(i), errorOf(i), UnknownError}
                /\ i \in SentIds
                /\ \E s \in 1..Len(socks) : readyState(s) = "OPEN"
                /\ socks' = socks

C5Theorem == [][C5Step]_vars

\* A request was written to the first socket, that socket closed, the
\* connection was re-established on a second socket, and the request was in the
\* end rejected by its own timeout.
C5Witness ==
    /\ Len(socks) = 2
    /\ readyState(1) = "CLOSED"
    /\ readyState(2) = "OPEN"
    /\ \E k \in 1..Len(wire) :
          /\ wire[k].sock = 1
          /\ promise[wire[k].id].state = "rejected"
          /\ promise[wire[k].id].value = TimedOut

\* C6: the step that handles a rejected pre-flight check sets a non-null auth
\* error and removes the persisted token; it creates no socket and leaves the
\* reconnect timer and the attempt counter as they were.
C6Rejected == authFetch.status = "rejected" /\ authFetch' = NoFetch

C6Step ==
    C6Rejected =>
       /\ _authError' # NoError
       /\ stored' = NoTok
       /\ socks' = socks
       /\ ws' = ws
       /\ reconnectTimer' = reconnectTimer
       /\ reconnectAttempt' = reconnectAttempt
       /\ ~_connecting'

C6Theorem == [][C6Step]_vars

\* A command was issued, the token was rejected: the auth error is exposed,
\* nothing is persisted, no socket exists and no reconnect is pending.
C6Witness ==
    /\ _authError = InvalidTokenMsg
    /\ stored = NoTok
    /\ authFetch = NoFetch
    /\ socks = <<>>
    /\ reconnectTimer = NoTimer
    /\ queue # <<>>

\* A step of an invoke or a listen call.
FreshCall ==
    \/ \E c \in Commands : Invoke(c)
    \/ \E e \in Events, h \in Handlers : Listen(e, h)

\* A step that starts a token validation; a socket is created only by the
\* step that handles the success of one.
ValidationStarted == authFetch.status # "sent" /\ authFetch'.status = "sent"

SocketCreated == Len(socks') > Len(socks)

\* C7 (as stated): whenever the auth error is non-null, no reconnect timer is
\* pending, and while the auth error is non-null only an invoke or a listen
\* call starts a token validation or a socket attempt.
C7NoTimerWhileAuthFailed == _authError # NoError => reconnectTimer = NoTimer

C7Step ==
    /\ (_authError # NoError /\ ValidationStarted) => FreshCall
    /\ SocketCreated => (authFetch.status = "ok" /\ authFetch' = NoFetch)

C7Attempts == [][C7Step]_vars

C7Terminal == []C7NoTimerWhileAuthFailed /\ C7Attempts

\* The auth-failed state of the connection: an auth error is exposed and no
\* validation is in flight.
AuthFailed == _authError # NoError /\ ~_connecting

\* C8: in the auth-failed state connect is not blocked; an invoke or listen
\* call made there while a valid token is resolvable starts a validation of
\* that token; a validation that succeeds clears the auth error and creates a
\* socket with the queue intact; the socket that opens flushes the queue and
\* sets the connected flag.
C8Inv == AuthFailed => ~connectBlocked

C8Retry ==
    (FreshCall /\ ~native /\ AuthFailed /\ resolvedToken \in ValidTokens) =>
       /\ authFetch' = [token |-> resolvedToken, status |-> "sent"]
       /\ _connecting'

C8Validated ==
    (authFetch.status = "ok" /\ authFetch' = NoFetch) =>
       /\ _authError' = NoError
       /\ Len(socks') = Len(socks) + 1
       /\ ws' = Len(socks')
       /\ socks'[ws'].state = "CONNECTING"
       /\ queue' = queue

C8Connected ==
    \A s \in 1..Len(socks) :
       (s = ws /\ readyState(s) = "CONNECTING" /\ socks'[s].state = "OPEN") =>
          /\ _connected'
          /\ queue' = <<>>
          /\ \A k \in 1..Len(queue) : \E w \in 1..Len(wire') :
                wire'[w].sock = s /\ wire'[w].id = queue[k].id

C8Step == C8Retry /\ C8Validated /\ C8Connected

C8Theorem == []C8Inv /\ [][C8Step]_vars

\* The token was rejected and no reconnect was ever scheduled; a command is
\* queued and the backend has accepted the token now resolvable, with the
\* auth error of the rejection still exposed: the validation was started by a
\* call made in the auth-failed state.
C8Witness ==
    /\ _authError = InvalidTokenMsg
    /\ authFetch = [token |-> "good", status |-> "ok"]
    /\ queue # <<>>
    /\ socks = <<>>
    /\ reconnectAttempt = 0
    /\ reconnectTimer = NoTimer

\* C9: the step that handles a network failure of the pre-flight check leaves
\* the auth error null, the persisted token present and a reconnect pending;
\* the persisted token is removed only by the step that handles a rejection.
C9Failed == authFetch.status = "failed" /\ authFetch' = NoFetch

C9Step ==
    /\ C9Failed =>
          /\ _authError' = NoError
          /\ stored' = stored
          /\ stored' # NoTok
          /\ reconnectTimer' # NoTimer
    /\ (stored # NoTok /\ stored' = NoTok) =>
          (authFetch.status = "rejected" /\ authFetch' = NoFetch)

C9Theorem == [][C9Step]_vars

\* The first validation failed at the network level: no socket was ever
\* created, the token is still persisted, no auth error is exposed and the
\* first reconnect is pending.
C9Witness ==
    /\ authFetch = NoFetch
    /\ ~_connecting
    /\ _authError = NoError
    /\ stored # NoTok
    /\ socks = <<>>
    /\ reconnectAttempt = 1
    /\ reconnectTimer = BackoffBaseMs

\* C10: a call of connect that is not blocked and resolves no token sets the
\* 'no token' auth error; it issues no validation request, creates no socket
\* and schedules no reconnect.
ConnectCalled ==
    \/ ~native /\ ModuleLoad
    \/ ~native /\ FreshCall
    \/ ReconnectTimerFire

C10Step ==
    (ConnectCalled /\ ~connectBlocked /\ ~WsOpen /\ resolvedToken = NoTok) =>
       /\ _authError' = NoTokenMsg
       /\ authFetch' = authFetch
       /\ authFetch' = NoFetch
       /\ ~_connecting'
       /\ socks' = socks
       /\ ws' = ws
       /\ reconnectAttempt' = reconnectAttempt
       /\ reconnectTimer' \in {reconnectTimer, NoTimer}
       /\ stored' = NoTok

C10Theorem == [][C10Step]_vars

\* The page was loaded without any token: the 'no token' error is exposed and
\* nothing else has happened.
C10Witness ==
    /\ loaded
    /\ ~native
    /\ _authError = NoTokenMsg
    /\ authFetch = NoFetch
    /\ ~_connecting
    /\ stored = NoTok
    /\ urlToken = NoTok
    /\ socks = <<>>
    /\ reconnectTimer = NoTimer
    /\ reconnectAttempt = 0

\* C11: a step that arms the reconnect timer arms it with
\* min(1000 * 2^attempt, 30000) ms (1 s, 2 s, 4 s, 8 s, 16 s, 30 s, 30 s, ...)
\* and adds one to the attempt counter; the counter changes in no other way
\* than by that increment and by the reset to 0 of a socket open event, so it
\* counts the reconnects scheduled since a socket last opened.
C11Delays == <<1000, 2000, 4000, 8000, 16000, 30000, 30000, 30000>>

C11Scheduled == reconnectTimer = NoTimer /\ reconnectTimer' # NoTimer

C11Opened == \E s \in 1..Len(socks) : readyState(s) = "CONNECTING" /\ socks'[s].state = "OPEN"

C11Inv ==
    /\ reconnectAttempt \in 0..Len(C11Delays)
    /\ \A a \in 0..(Len(C11Delays) - 1) :
          C11Delays[a + 1] = Min(1000 * (2 ^ a), 30000)
    /\ reconnectTimer # NoTimer => \E a \in 0..(Len(C11Delays) - 1) :
          reconnectTimer \in {0, C11Delays[a + 1]}

C11Step ==
    /\ C11Scheduled =>
          /\ reconnectTimer' = C11Delays[reconnectAttempt + 1]
          /\ reconnectAttempt' = reconnectAttempt + 1
    /\ C11Opened => reconnectAttempt' = 0
    /\ reconnectAttempt' # reconnectAttempt =>
          \/ C11Scheduled
          \/ C11Opened /\ reconnectAttempt' = 0
    /\ (reconnectTimer # NoTimer /\ reconnectTimer' # reconnectTimer) =>
          \/ reconnectTimer > 0 /\ reconnectTimer' = 0
          \/ reconnectTimer = 0 /\ reconnectTimer' = NoTimer

C11Theorem == []C11Inv /\ [][C11Step]_vars

\* The sixth reconnect in a row is pending: its delay is the cap, not 32 s.
C11Witness ==
    /\ reconnectAttempt = 6
    /\ reconnectTimer = 30000

\* The reconnect-pending state of the connection: a backoff timer is pending,
\* no validation is in flight and no socket is connecting or open.
ReconnectPending == reconnectTimer # NoTimer /\ ~connectBlocked

\* C12 (as stated): in the reconnect-pending state a token validation is
\* started only by the backoff timer firing; invoke and listen calls made
\* there queue the command or register the handler and start no validation.
C12Step == (ReconnectPending /\ ValidationStarted) => ReconnectTimerFire

C12OnlyTimer == [][C12Step]_vars

\* The sockets that are connecting or open.
LiveSockets == {s \in 1..Len(socks) : readyState(s) \in {"CONNECTING", "OPEN"}}

\* C13: a validation is in flight exactly while _connecting is set, and then
\* no socket is connecting or open; at most one socket is connecting or open,
\* and it is this.ws.  A validation request is issued only when none is in
\* flight and no socket is connecting or open; a socket is created only when
\* none is connecting or open.
C13Inv ==
    /\ _connecting <=> authFetch # NoFetch
    /\ Cardinality(LiveSockets) <= 1
    /\ LiveSockets \subseteq {ws}
    /\ _connecting => LiveSockets = {}

C13Step ==
    /\ (authFetch' # authFetch /\ authFetch'.status = "sent") =>
          /\ authFetch = NoFetch
          /\ ~_connecting
          /\ LiveSockets = {}
    /\ SocketCreated =>
          /\ LiveSockets = {}
          /\ Len(socks') = Len(socks) + 1

C13Theorem == []C13Inv /\ [][C13Step]_vars

\* The first socket is still in its closing handshake when the second one,
\* requested by a command issued meanwhile, is connecting.
C13Witness ==
    /\ Len(socks) = 2
    /\ socks[1].state = "CLOSING"
    /\ socks[2].state = "CONNECTING"
    /\ ws = 2
    /\ queue # <<>>

\* C14: outside the auth-failed state, the step of a socket close and the
\* step that handles a network failure of the pre-flight check leave a
\* reconnect pending, and a pending reconnect fires, which calls connect.  In
\* remote mode the connection is never at rest with a resolvable token, no auth
\* error, no socket connecting, open or closing, no validation in flight and
\* no timer pending.  With a backend that ends up reachable, the connection
\* always gets to an open socket or to the auth-failed state, and to an open
\* socket when the token it resolves is always one the backend accepts.
C14Inv ==
    (/\ loaded
     /\ ~native
     /\ _authError = NoError
     /\ resolvedToken # NoTok
     /\ LiveSockets = {}
     /\ ClosingSockets = {})
    => (_connecting \/ reconnectTimer # NoTimer)

C14SocketClosed == \E s \in 1..Len(socks) : readyState(s) # "CLOSED" /\ socks'[s].state = "CLOSED"

C14Step ==
    /\ (C14SocketClosed /\ _authError = NoError) => reconnectTimer' # NoTimer
    /\ C9Failed => reconnectTimer' # NoTimer
    /\ (reconnectTimer = 0 /\ reconnectTimer' = NoTimer) =>
          \/ _connecting'
          \/ LiveSockets # {}
          \/ _authError' # NoError

C14Retried == (reconnectTimer # NoTimer) ~> (reconnectTimer = NoTimer)

C14Live == (loaded /\ ~native) ~> (WsOpen \/ AuthFailed)

C14Connected ==
    [](stored \in ValidTokens /\ urlToken \in ValidTokens \cup {NoTok})
       => ((loaded /\ ~native) ~> WsOpen)

C14Theorem == []C14Inv /\ [][C14Step]_vars /\ C14Retried /\ C14Live /\ C14Connected

\* After a socket was lost and a pre-flight check failed at the network level
\* (two reconnects scheduled since the last open), a new socket is connecting.
C14Witness ==
    /\ Len(socks) = 2
    /\ socks[1].state = "CLOSED"
    /\ socks[2].state = "CONNECTING"
    /\ reconnectAttempt = 2
    /\ _authError = NoError

\* C15 (as stated): a call of a closure returned by listen that was called
\* before leaves the listener map as it is.
C15Step ==
    \A k \in 1..Len(unlisteners) :
       (Unlisten(k) /\ unlisteners[k].calls >= 1) => listeners' = listeners

C15Idempotent == [][C15Step]_vars

\* The handlers of event e in listener map L.
Registered(L, e) == IF e \in DOMAIN L THEN {L[e][i] : i \in 1..Len(L[e])} ELSE {}

\* C16: the listener map holds no event name with an empty Set, and a Set
\* holds a handler once; a closure call that removes the last handler of an
\* event, made by the application or by a handler during fan-out, removes the
\* event name with it.
C16Inv ==
    \A e \in DOMAIN listeners :
       /\ listeners[e] # <<>>
       /\ \A i, j \in 1..Len(listeners[e]) : listeners[e][i] = listeners[e][j] => i = j

C16Step ==
    \A e \in Events :
       (Registered(listeners, e) # {} /\ Registered(listeners', e) = {})
          => e \notin DOMAIN listeners'

C16Theorem == []C16Inv /\ [][C16Step]_vars

\* The last handler of e1 was unsubscribed after an event was delivered to it;
\* e1 is gone from the map and e2 still has its handler.
C16Witness ==
    /\ DOMAIN listeners = {"e2"}
    /\ Len(unlisteners) = 2
    /\ unlisteners[1].event = "e1"
    /\ unlisteners[1].calls = 1
    /\ delivered = <<<<"e1", unlisteners[1].handler>>>>

\* C17: the fan-out of an inbound event message e calls only handlers that
\* were registered for e when it arrived, each at most once and in the order
\* of the Set, and calls every one of them that is still registered afterwards;
\* when no handler unsubscribes anything during the fan-out, whether handlers
\* throw or not, every handler of e is called exactly once.  The step changes
\* no connection state, no correlation entry and no promise, and adds nothing
\* to the listener map.
C17Calls(e) == [i \in 1..Len(listeners[e]) |-> <<e, listeners[e][i]>>]

C17Delivered(e) ==
    /\ \A i \in 1..Len(delivered') :
          /\ delivered'[i][1] = e
          /\ delivered'[i][2] \in Registered(listeners, e)
    /\ \A i, j \in 1..Len(delivered') : delivered'[i] = delivered'[j] => i = j
    /\ \A h \in Registered(listeners', e) : \E i \in 1..Len(delivered') : delivered'[i][2] = h
    /\ listeners' = listeners =>
          delivered' = (IF e \in DOMAIN listeners THEN C17Calls(e) ELSE <<>>)
    /\ \A x \in Events : Registered(listeners', x) \subseteq Registered(listeners, x)
    /\ UNCHANGED <<connVars, reqVars, sockVars, retryVars, queue, wire>>

C17Step ==
    \A s \in 1..Len(socks) : \A e \in Events :
       LET msg == [type |-> "event", id |-> NoId, data |-> NoPayload,
                   error |-> NoPayload, event |-> e]
       IN SocketMessage(s, msg) => C17Delivered(e)

C17Theorem == [][C17Step]_vars

\* An event was delivered to both handlers of e1, which are still registered.
C17Witness ==
    /\ "e1" \in DOMAIN listeners
    /\ Len(listeners["e1"]) = 2
    /\ delivered = C17Calls("e1")
    /\ WsOpen

\* C18: the step that drops a frame which does not parse changes nothing
\* else: the socket, the connected flag, the correlation table, the promises
\* and timers, the send queue and the listener map stay as they are.  Frames
\* that come after it are processed: a response settles its promise, an event
\* reaches the handlers.
C18Dropped ==
    dropped' # dropped =>
       /\ dropped' = dropped + 1
       /\ UNCHANGED <<native, loaded, connVars, reqVars, sockVars, retryVars, queue, wire,
                      listeners, unlisteners, delivered, bridgeCalls>>

C18Later ==
    \A s \in 1..Len(socks) : \A msg \in Inbound :
       (dropped >= 1 /\ SocketMessage(s, msg)) =>
          /\ (msg.type = "response" /\ msg.id \in DOMAIN pending) =>
                promise'[pending[msg.id].promise] =
                   [state |-> "resolved", value |-> msg.data, settles |-> 1]
          /\ (msg.type = "event" /\ msg.event \in DOMAIN listeners) =>
                SubSeq(delivered', 1, 1) = SubSeq(C17Calls(msg.event), 1, 1)

C18Step == C18Dropped /\ C18Later

C18Theorem == [][C18Step]_vars

\* A frame was dropped; the socket is open, the flag set, a request has been
\* answered, another is pending and an event has reached the handler.
C18Witness ==
    /\ dropped = 1
    /\ WsOpen
    /\ _connected
    /\ promise[1].state = "resolved"
    /\ 2 \in DOMAIN pending
    /\ delivered # <<>>

\* C19: an error message for an id of the correlation table rejects the
\* promise of that id with the error text of the message, or with 'Unknown
\* error' when it carries none, cancels its timer and removes its entry; no
\* other promise, entry or timer and no connection state is changed.
C19Rejected(msg) ==
    LET p == pending[msg.id].promise
        t == pending[msg.id].timeout
    IN /\ promise'[p] =
             [state |-> "rejected",
              value |-> IF msg.error = NoPayload THEN UnknownError ELSE msg.error,
              settles |-> 1]
       /\ timers'[t] = NoTimer
       /\ msg.id \notin DOMAIN pending'
       /\ \A i \in Ids \ {p} : promise'[i] = promise[i]
       /\ \A i \in Ids \ {t} : timers'[i] = timers[i]
       /\ \A i \in DOMAIN pending \ {msg.id} : i \in DOMAIN pending' /\ pending'[i] = pending[i]
       /\ UNCHANGED <<connVars, sockVars, retryVars, queue, wire, lsnVars, nextId>>

C19Step ==
    \A i \in DOMAIN pending : \A e \in {errorOf(i), NoPayload} :
       LET msg == [type |-> "error", id |-> i, data |-> NoPayload, error |-> e,
                   event |-> ""]
       IN \A s \in 1..Len(socks) : SocketMessage(s, msg) => C19Rejected(msg)

C19Theorem == [][C19Step]_vars

\* The first request was rejected with the text of its error message, the
\* second, whose error message carried none, with 'Unknown error'; the socket
\* is open and the flag set.
C19Witness ==
    /\ promise[1] = [state |-> "rejected", value |-> errorOf(1), settles |-> 1]
    /\ promise[2] = [state |-> "rejected", value |-> UnknownError, settles |-> 1]
    /\ pending = EmptyMap
    /\ WsOpen
    /\ _connected

\* C20: an invoke or listen call made while the probe answers native goes to
\* the native bridge and changes nothing of the socket transport: no
\* correlation entry, promise or timer, nothing queued or sent, no handler
\* registered, no validation, socket or reconnect timer.  One made while the
\* probe answers remote goes to the socket transport and does not call the
\* bridge.  Module load does not connect in native mode.
C20Transport == <<connVars, reqVars, sockVars, retryVars, lsnVars, queue, wire>>

C20Step ==
    /\ (native /\ FreshCall) =>
          /\ bridgeCalls' = bridgeCalls + 1
          /\ UNCHANGED C20Transport
    /\ (~native /\ FreshCall) => bridgeCalls' = bridgeCalls
    /\ (~native /\ \E c \in Commands : Invoke(c)) =>
          /\ nextId' = nextId + 1
          /\ nextId \in DOMAIN pending'
    /\ (~native /\ \E e \in Events, h \in Handlers : Listen(e, h)) =>
          /\ Len(unlisteners') = Len(unlisteners) + 1
          /\ \E e \in DOMAIN listeners' : e \in Events
    /\ bridgeCalls' # bridgeCalls => native
    /\ (native /\ ModuleLoad) => UNCHANGED C20Transport

C20Theorem == [][C20Step]_vars

\* A command went to the socket transport while the probe answered remote; the
\* probe answers native now and a later call went to the bridge.
C20Witness ==
    /\ native
    /\ bridgeCalls = 1
    /\ nextId = 2
    /\ 1 \in DOMAIN pending
    /\ queue # <<>>

\* C21: a listen call routed to the socket transport registers its handler
\* and writes nothing to a socket, queues nothing and creates no correlation
\* entry, promise or timer.  When it returns a connection attempt is under
\* way (a validation in flight, or a socket connecting or open), or, with no
\* token resolvable, the attempt it made has ended at once in the 'no token'
\* auth error.  A call made while a socket is connecting or open, or while a
\* validation is in flight, leaves the connection as it was.
C21AttemptUnderWay ==
    \/ _connecting /\ authFetch.status # "none"
    \/ ws # 0 /\ readyState(ws) \in {"CONNECTING", "OPEN"}

C21Step ==
    \A e \in Events, h \in Handlers :
       (~native /\ Listen(e, h)) =>
          /\ e \in DOMAIN listeners' /\ SeqHas(listeners'[e], h)
          /\ UNCHANGED <<wire, queue, reqVars, sockVars, retryVars>>
          /\ C21AttemptUnderWay'
                \/ (resolvedToken = NoTok /\ _authError' = NoTokenMsg)
          /\ (~connectBlocked /\ resolvedToken # NoTok) =>
                authFetch' = [token |-> resolvedToken, status |-> "sent"]
          /\ connectBlocked => UNCHANGED connVars

C21Theorem == [][C21Step]_vars

\* No command was ever issued; a handler was registered while the backoff timer
\* was pending, and the validation its listen call started is in flight.
C21Witness ==
    /\ nextId = 1
    /\ listeners # EmptyMap
    /\ reconnectTimer # NoTimer
    /\ authFetch.status = "sent"
    /\ wire = <<>>
    /\ queue = <<>>
    /\ pending = EmptyMap

\* C22: a call of connect that is not blocked uses the token of the query
\* parameter when there is one, and the persisted token otherwise.  With a
\* token in the query parameter the call leaves that token persisted and the
\* URL without a token; with none it leaves the URL and the persisted value
\* as they were and validates the persisted token.  Only connect changes the
\* URL, and once the page has loaded in remote mode the URL carries no token.
C22Inv == (loaded /\ ~native) => urlToken = NoTok

C22Step ==
    /\ (ConnectCalled /\ ~connectBlocked /\ urlToken # NoTok) =>
          /\ stored' = urlToken
          /\ urlToken' = NoTok
          /\ authFetch' = [token |-> urlToken, status |-> "sent"]
    /\ (ConnectCalled /\ ~connectBlocked /\ urlToken = NoTok) =>
          /\ stored' = stored
          /\ urlToken' = NoTok
          /\ stored # NoTok => authFetch' = [token |-> stored, status |-> "sent"]
    /\ urlToken' # urlToken => (ConnectCalled /\ ~connectBlocked)

C22Theorem == []C22Inv /\ [][C22Step]_vars

\* The first attempt failed at the network and a reconnect was scheduled; the
\* timer has fired, and the second attempt, made on the stripped URL, validates
\* the persisted token.
C22Witness ==
    /\ reconnectAttempt = 1
    /\ reconnectTimer = NoTimer
    /\ nextId = 1
    /\ listeners = EmptyMap
    /\ urlToken = NoTok
    /\ stored \in Tokens
    /\ authFetch = [token |-> stored, status |-> "sent"]

\* C23: invoke messages are written in the order of the invoke calls.  Request
\* ids are issued in call order, so: the ids on the wire increase, the ids in
\* the queue increase, every queued id is later than every id written, and the
\* queue is empty whenever the current socket is open, so that a command sent
\* directly never passes a queued one.  A direct send appends the new command
\* after everything written before, and a flush appends the queue in order.
C23Inv ==
    /\ \A k, l \in 1..Len(wire) : k < l => wire[k].id < wire[l].id
    /\ \A k, l \in 1..Len(queue) : k < l => queue[k].id < queue[l].id
    /\ \A k \in 1..Len(wire) : \A l \in 1..Len(queue) : wire[k].id < queue[l].id
    /\ WsOpen => queue = <<>>

C23Step ==
    /\ (~native /\ WsOpen /\ \E c \in Commands : Invoke(c)) =>
          /\ Len(wire') = Len(wire) + 1
          /\ SubSeq(wire', 1, Len(wire)) = wire
          /\ wire'[Len(wire')].id = nextId
          /\ wire'[Len(wire')].sock = ws
    /\ wire' # wire =>
          /\ Len(wire') >= Len(wire)
          /\ SubSeq(wire', 1, Len(wire)) = wire
          /\ \/ /\ queue # <<>>
                /\ [k \in 1..Len(queue) |-> wire'[Len(wire) + k].id]
                      = [k \in 1..Len(queue) |-> queue[k].id]
             \/ /\ queue = <<>>
                /\ Len(wire') = Len(wire) + 1

C23Theorem == []C23Inv /\ [][C23Step]_vars

\* Both commands are on the wire of the open socket, the first call first,
\* whether they were flushed from the queue or sent directly; nothing is
\* queued and neither request is settled.
C23Witness ==
    /\ Len(socks) = 1
    /\ WsOpen
    /\ queue = <<>>
    /\ Len(wire) = 2
    /\ wire[1].id = 1
    /\ wire[2].id = 2
    /\ \A i \in Ids : Unsettled(i) /\ timers[i] = RequestTimeoutMs

\* C24: the correlation table holds an entry for an id exactly when the
\* promise of that invoke is unsettled, and the request timer of an id is live
\* exactly when the id is in the table.  A step that queues a command or
\* flushes the queue settles no promise and leaves the promise of every queued
\* command as it was; the step that removes an entry on a response or an error
\* message cancels its timer, which was live, and settles the promise once;
\* and a timer that is due belongs to an id that is in the table with its
\* promise unsettled.
C24Inv ==
    \A i \in Ids :
       /\ i \in DOMAIN pending <=> Unsettled(i)
       /\ i \in DOMAIN pending <=> timers[i] # NoTimer
       /\ i \in DOMAIN pending => pending[i].timeout = i

C24Step ==
    /\ queue' # queue =>
          /\ \A i \in Ids : Settled(i) <=> promise'[i].state \in {"resolved", "rejected"}
          /\ Len(queue') > Len(queue) => promise'[queue'[Len(queue')].id].state = "pending"
          /\ \A k \in 1..Len(queue) : promise'[queue[k].id] = promise[queue[k].id]
    /\ \A i \in DOMAIN pending :
          i \notin DOMAIN pending' =>
             /\ timers'[i] = NoTimer
             /\ promise'[i].settles = 1
             /\ promise'[i].value \in {dataOf(i), errorOf(i), UnknownError} =>
                   timers[i] # NoTimer
    /\ \A t \in Ids :
          (timers[t] = 0 /\ timers'[t] = NoTimer) => (t \in DOMAIN pending /\ Unsettled(t))

C24Theorem == []C24Inv /\ [][C24Step]_vars

\* The first request was queued, flushed and resolved by its response, the
\* second was rejected by its timeout: the table is empty, no timer is live
\* and each promise was settled once.
C24Witness ==
    /\ promise[1] = [state |-> "resolved", value |-> dataOf(1), settles |-> 1]
    /\ promise[2] = [state |-> "rejected", value |-> TimedOut, settles |-> 1]
    /\ pending = EmptyMap
    /\ \A i \in Ids : timers[i] = NoTimer
    /\ queue = <<>>
    /\ wire # <<>>

\* The bootstrap fetches issued so far.
initFetches == {p \in 1..Len(initPromises) : initPromises[p].fetch # "none"}

\* C25: preloadInitialData creates at most one promise and issues at most one
\* fetch of /api/init, whatever the number of calls.  A call made in native
\* mode creates no promise, issues no fetch and yields null.  A call made in
\* remote mode returns the one cached promise, so every such caller sees the
\* value of that attempt, and a call made after the attempt has yielded null
\* starts no other.
C25Inv ==
    /\ Len(initPromises) <= 1
    /\ Cardinality(initFetches) <= 1
    /\ initialDataPromise = Len(initPromises)
    /\ \A k \in 1..Len(preloadCalls) :
          LET call == preloadCalls[k] IN
          /\ call.ref \in {0, initialDataPromise}
          /\ call.ref = 0 => call.got \in {"waiting", "null"}
          /\ (call.ref # 0 /\ call.got # "waiting") =>
                /\ initPromises[call.ref].state = "fulfilled"
                /\ call.got = "data" <=> initPromises[call.ref].value # NullData
                /\ call.got = "null" <=> initPromises[call.ref].value = NullData

C25Step ==
    /\ (native /\ PreloadCall) =>
          /\ UNCHANGED <<initialDataPromise, initPromises, initialDataResolved>>
          /\ preloadCalls'[Len(preloadCalls')].ref = 0
    /\ (~native /\ PreloadCall) =>
          /\ preloadCalls'[Len(preloadCalls')].ref = 1
          /\ initialDataPromise # 0 => UNCHANGED <<initialDataPromise, initPromises>>
    /\ \A p \in 1..Len(initPromises) :
          initPromises[p].state = "fulfilled" => initPromises'[p] = initPromises[p]

C25Theorem == []C25Inv /\ [][C25Step]_vars

\* Two calls were made in remote mode, the second after the one fetch had
\* failed: both callers have seen null, and no second fetch was issued.
C25Witness ==
    /\ Len(preloadCalls) = 2
    /\ \A k \in 1..2 : preloadCalls[k] = [ref |-> 1, got |-> "null"]
    /\ Len(initPromises) = 1
    /\ initPromises[1].fetch = "done"
    /\ initPromises[1].value = NullData

\* What the preloader does not touch.
C26Transport == <<connVars, reqVars, sockVars, retryVars, lsnVars, queue, wire, bridgeCalls>>

\* C26: the promise of preloadInitialData is never rejected.  Without a token
\* it is fulfilled with null and no fetch is made; after a network error, a
\* non-OK status or a body that does not parse it is fulfilled with null and
\* hasPreloadedData() keeps its value; hasPreloadedData() is true only once an
\* attempt has yielded data.  No step of the preloader or of the callbacks
\* chained on its promise changes the state of the socket transport.
C26Inv ==
    /\ \A p \in 1..Len(initPromises) :
          /\ initPromises[p].state \in {"pending", "fulfilled"}
          /\ initPromises[p].token = NoTok =>
                (initPromises[p].fetch = "none" /\ initPromises[p].state = "fulfilled"
                 /\ initPromises[p].value = NullData)
    /\ \A k \in 1..Len(preloadCalls) : preloadCalls[k].got # "rejected"
    /\ hasPreloadedData =>
          \E p \in 1..Len(initPromises) :
             initPromises[p].state = "fulfilled" /\ initPromises[p].value # NullData

C26Step ==
    /\ \A p \in 1..Len(initPromises) :
          (initPromises[p].fetch \in {"neterr", "notok", "badjson"}
             /\ initPromises'[p].fetch = "done") =>
                /\ initPromises'[p].state = "fulfilled"
                /\ initPromises'[p].value = NullData
                /\ hasPreloadedData' = hasPreloadedData
    /\ preVars' # preVars => UNCHANGED C26Transport

C26Theorem == []C26Inv /\ [][C26Step]_vars

\* The fetch was made with a valid token and failed, or its body did not
\* parse: the promise is fulfilled with null and the App has seen null,
\* hasPreloadedData() is false, and the socket is open with a command
\* outstanding.
C26Witness ==
    /\ Len(initPromises) = 1
    /\ initPromises[1].state = "fulfilled"
    /\ initPromises[1].value = NullData
    /\ initPromises[1].token \in ValidTokens
    /\ preloadCalls # <<>>
    /\ preloadCalls[1].got = "null"
    /\ ~hasPreloadedData
    /\ WsOpen
    /\ 1 \in DOMAIN pending

\* The cache entries the preloader has seeded: a callback chained on its
\* promise has merged a snapshot that carries a value for the entry.
Seeded(k) ==
    \E c \in 1..Len(preloadCalls) :
       /\ preloadCalls[c].got = "data"
       /\ \E f \in initPromises[preloadCalls[c].ref].value.has : keyOf(f) = k

\* The preload effect of App has run to its end.
PreloadSettled ==
    /\ preloadCalls # <<>>
    /\ \A c \in 1..Len(preloadCalls) : preloadCalls[c].got # "waiting"

\* C27 (as stated): the invalidation pass that runs in remote mode when the
\* connection flag has become true, after the preload has ended, invalidates
\* every cache entry that the preloader did not seed and leaves the seeded ones
\* as they were.
C27Step ==
    (~native /\ _connected /\ PreloadSettled /\ AppConnectionEffect) =>
       \A k \in Keys :
          /\ (cache[k].src # "none" /\ ~Seeded(k)) => cache'[k].stale
          /\ Seeded(k) => cache'[k] = cache[k]

C27Invalidation == [][C27Step]_vars

\* C28 (as stated, for the socket-path updates): a merge of the bootstrap
\* snapshot leaves every cache entry that a mounted query has fetched over the
\* socket as it is, so that the entry still holds the live value after a late
\* merge.
C28Step ==
    (\E c \in 1..Len(preloadCalls) : AppPreloadThen(c)) =>
       \A k \in MountedKeys : cache[k].src = "live" => cache'[k] = cache[k]

C28LiveWins == [][C28Step]_vars

\* The snapshot that the callback of call c merges, NullData if it merges none.
mergedBy(c) ==
    IF preloadCalls[c].ref = 0 \/ initPromises[preloadCalls[c].ref].state # "fulfilled"
    THEN NullData
    ELSE initPromises[preloadCalls[c].ref].value

\* C29: the snapshot merge is idempotent. Whenever a callback has applied
\* seedCache with a snapshot, applying seedCache once more with the same
\* snapshot would change neither the query cache nor the chat store
\* (session-to-worktree map, worktree paths, reviewing and waiting flags).
C29Step ==
    \A c \in 1..Len(preloadCalls) :
       (AppPreloadThen(c) /\ mergedBy(c) # NullData) =>
          /\ cache' = seedQueries(cache, mergedBy(c))
          /\ store' = seedStore(store, mergedBy(c))
          /\ seedQueries(cache', mergedBy(c)) = cache'
          /\ seedStore(store', mergedBy(c)) = store'

C29Theorem == [][C29Step]_vars

\* Both callers of the preloader have merged the same snapshot, which carried
\* sessions with a set flag, into the cache and the store.
C29Witness ==
    /\ Len(preloadCalls) = 2
    /\ \A c \in 1..2 : preloadCalls[c].got = "data"
    /\ mergedBy(1) = mergedBy(2)
    /\ mergedBy(1).reviewing
    /\ store.sessionWorktreeMap = "w1"
    /\ store.reviewingSessions = "true"
    /\ \E k \in Keys : cache[k].src = "snapshot"

\* C30: in remote mode hasBackend() equals the transport's connected flag in
\* every reachable state, and in native mode it is true; the flag behind it
\* changes only in a step of a socket callback of the transport, which changes
\* the connected flag to the same value.
C30Inv ==
    /\ _wsConnected = _connected
    /\ ~native => (hasBackend <=> _connected)
    /\ native => hasBackend

C30Step ==
    (_wsConnected' # _wsConnected \/ _connected' # _connected) =>
       /\ _wsConnected' = _connected'
       /\ \E s \in 1..Len(socks) : SocketOpen(s) \/ SocketClose(s)

C30Theorem == []C30Inv /\ [][C30Step]_vars

\* Remote mode: the first socket has closed and the second one is open, so the
\* flag has been set, cleared and set again; hasBackend() is true.
C30Witness ==
    /\ loaded
    /\ ~native
    /\ Len(socks) = 2
    /\ socks[1].state = "CLOSED"
    /\ socks[2].state = "OPEN"
    /\ ws = 2
    /\ _connected
    /\ hasBackend

\* C31 (as stated, for the late close): the close event of a socket that has
\* been replaced, delivered while the socket created last is open and the flag
\* is true, leaves the connected flag and hasBackend() true and schedules no
\* reconnect.
C31Step ==
    \A s \in 1..Len(socks) :
       (s # ws /\ WsOpen /\ _connected /\ SocketClose(s)) =>
          /\ _connected'
          /\ _wsConnected'
          /\ UNCHANGED retryVars

C31Current == [][C31Step]_vars

\* The messages a step writes to a socket.
written == SubSeq(wire', Len(wire) + 1, Len(wire'))

\* C32 (as stated): every message written to the socket when the queue is
\* flushed belongs to a request that is pending at that moment, whose promise
\* has not been settled.
C32Step ==
    \A s \in 1..Len(socks) :
       (SocketOpen(s) /\ queue # <<>>) =>
          \A k \in 1..Len(written) :
             /\ written[k].id \in DOMAIN pending
             /\ Unsettled(written[k].id)

C32NoStale == [][C32Step]_vars

\* C33: each invoke's message is written to a socket at most once over the
\* whole run.  No id occurs twice on the wire, no queued message has been
\* written, and no id is queued twice; what has been written stays as it is;
\* the close of a socket writes nothing and queues nothing; a flush writes
\* exactly the queued messages, none of which was written before, and leaves
\* the queue empty.
C33Inv ==
    /\ \A i, j \in 1..Len(wire) : wire[i].id = wire[j].id => i = j
    /\ \A i, j \in 1..Len(queue) : queue[i].id = queue[j].id => i = j
    /\ \A i \in 1..Len(queue) : queue[i].id \notin SentIds

C33Step ==
    /\ Len(wire') >= Len(wire)
    /\ SubSeq(wire', 1, Len(wire)) = wire
    /\ \A k \in 1..Len(written) : \A i \in 1..Len(wire) : written[k].id # wire[i].id
    /\ \A s \in 1..Len(socks) :
          (readyState(s) # "CLOSED" /\ socks'[s].state = "CLOSED") =>
             UNCHANGED <<wire, queue>>
    /\ \A s \in 1..Len(socks) :
          (readyState(s) = "CONNECTING" /\ socks'[s].state = "OPEN" /\ queue # <<>>) =>
             /\ queue' = <<>>
             /\ Len(written) \in {0, Len(queue)}
             /\ \A k \in 1..Len(written) : written[k].id = queue[k].id

C33Theorem == []C33Inv /\ [][C33Step]_vars

\* A command was sent on the first socket, which has closed with the request
\* still pending; a second command was queued and flushed on the second
\* socket.  The wire holds each message once.
C33Witness ==
    /\ Len(socks) = 2
    /\ socks[1].state = "CLOSED"
    /\ WsOpen
    /\ Len(wire) = 2
    /\ wire[1].sock = 1 /\ wire[1].id = 1
    /\ wire[2].sock = 2 /\ wire[2].id = 2
    /\ 1 \in DOMAIN pending
    /\ queue = <<>>

\* C34: in the state after a close event has been handled the connected flag
\* and hasBackend()'s flag are false and, when no auth error is set, a reconnect
\* timer is pending; with an auth error set the close schedules nothing.  An
\* error event changes no state of the transport.
C34Closed(s) == readyState(s) # "CLOSED" /\ socks'[s].state = "CLOSED"

C34Errored(s) == ~socks[s].errored /\ socks'[s].errored

C34Step ==
    \A s \in 1..Len(socks) :
       /\ C34Closed(s) =>
             /\ ~_connected'
             /\ ~_wsConnected'
             /\ _authError' = _authError
             /\ _authError = NoError => reconnectTimer' # NoTimer
             /\ _authError # NoError => UNCHANGED retryVars
       /\ C34Errored(s) =>
             /\ socks'[s].state = socks[s].state
             /\ UNCHANGED <<connVars, reqVars, ws, _connected, _wsConnected, retryVars,
                            lsnVars, queue, wire>>

C34Theorem == [][C34Step]_vars

\* The second socket of a row failed after an error event and was closed
\* while connecting: the flag is false and the second reconnect is scheduled,
\* no auth error being set.
C34Witness ==
    /\ Len(socks) = 2
    /\ socks[1].state = "CLOSED"
    /\ socks[2].state = "CLOSED"
    /\ ~_connected
    /\ ~hasBackend
    /\ _authError = NoError
    /\ reconnectAttempt = 2
    /\ reconnectTimer = backoffDelay(1)

\* A step that calls scheduleReconnect: a close event, or a pre-flight check
\* that failed.
C35Requested ==
    \/ \E s \in 1..Len(socks) : readyState(s) # "CLOSED" /\ socks'[s].state = "CLOSED"
    \/ authFetch.status = "failed" /\ authFetch' = NoFetch

\* C35: the timer slot holds at most one timer and is never armed again while
\* it holds one.  A reconnect requested while a timer is pending leaves the
\* timer and the attempt counter as they are; a pending timer only runs down
\* and is cleared by firing, which is the only way the slot is emptied; the
\* slot is armed only when it is empty, and the counter goes up by one then.
C35Step ==
    /\ (C35Requested /\ reconnectTimer # NoTimer) => UNCHANGED retryVars
    /\ (reconnectTimer # NoTimer /\ reconnectTimer' # reconnectTimer) =>
          /\ reconnectTimer' < reconnectTimer
          /\ reconnectTimer' = NoTimer <=> reconnectTimer = 0
          /\ reconnectAttempt' = reconnectAttempt
    /\ (reconnectTimer = NoTimer /\ reconnectTimer' # NoTimer) =>
          /\ C35Requested
          /\ reconnectTimer' = backoffDelay(reconnectAttempt)
          /\ reconnectAttempt' = reconnectAttempt + 1
    /\ ReconnectTimerFire => reconnectTimer' = NoTimer

C35Theorem == [][C35Step]_vars

\* Both sockets have closed and a queued command is still waiting, so no
\* socket opened after the command was issued; no check is in flight, and one
\* reconnect timer is pending with the counter at one.
C35Witness ==
    /\ Len(socks) = 2
    /\ socks[1].state = "CLOSED"
    /\ socks[2].state = "CLOSED"
    /\ queue # <<>>
    /\ ~_connecting
    /\ authFetch = NoFetch
    /\ reconnectTimer # NoTimer
    /\ reconnectAttempt = 1
    /\ _authError = NoError

\* C36: the timeout of request t removes exactly the id t from the
\* correlation table and rejects exactly the promise of t, with the timeout
\* error; the entries, promises and timers of the other requests, the sockets,
\* the connected flag, the auth error and the rest of the connection state,
\* the reconnect timer and its counter are unchanged.
C36Step ==
    \A t \in Ids :
       (t \in DOMAIN pending /\ RequestTimeout(t)) =>
          /\ DOMAIN pending' = (DOMAIN pending) \ {t}
          /\ \A i \in DOMAIN pending' : pending'[i] = pending[i]
          /\ Unsettled(t)
          /\ promise'[t].state = "rejected"
          /\ promise'[t].value = TimedOut
          /\ \A i \in Ids \ {t} : promise'[i] = promise[i] /\ timers'[i] = timers[i]
          /\ UNCHANGED <<connVars, sockVars, retryVars>>

C36Theorem == [][C36Step]_vars

\* The first request was rejected by its timeout while the second one was
\* pending on the open socket; the second is still pending with its entry and
\* its timer.
C36Witness ==
    /\ WsOpen
    /\ _connected
    /\ promise[1].state = "rejected"
    /\ promise[1].value = TimedOut
    /\ 1 \notin DOMAIN pending
    /\ 2 \in DOMAIN pending
    /\ Unsettled(2)
    /\ timers[2] # NoTimer
    /\ \E k \in 1..Len(wire) : wire[k].id = 2

\* C37 (as stated): once hasPreloadedData() returns true, getPreloadedData()
\* returns the snapshot that the bootstrap fetch delivered, and not null.
C37Returns ==
    hasPreloadedData =>
       /\ initialDataPromise # 0
       /\ getPreloadedData = initPromises[initialDataPromise].value
       /\ getPreloadedData # NullData

\* C38: in remote mode the loading screen, once shown, is left in the end,
\* whatever the preloader delivers; the step that dismisses it is the end of
\* a callback chain of the preload effect, and when that chain got a snapshot
\* the cache holds the snapshot's values in the state in which the screen is
\* gone; a chain that got null or an error dismisses it as well.  In native
\* mode the loading screen is never shown.
C38Inv == native => ~WebLoadingScreenShown

C38Step ==
    /\ (isPreloading /\ ~isPreloading') =>
          \E k \in 1..Len(preloadCalls) :
             /\ AppPreloadThen(k)
             /\ mergedBy(k) # NullData =>
                   /\ preloadCalls'[k].got = "data"
                   /\ \A f \in mergedBy(k).has :
                         cache'[keyOf(f)] =
                            [src |-> "snapshot", ver |-> mergedBy(k).ver, stale |-> FALSE]
    /\ \A k \in 1..Len(preloadCalls) : AppPreloadThen(k) => ~isPreloading'

C38Leaves == WebLoadingScreenShown ~> ~WebLoadingScreenShown

C38Theorem == []C38Inv /\ [][C38Step]_vars /\ C38Leaves

\* Remote mode: the bootstrap fetch was made and did not deliver a snapshot,
\* the callback chain saw null, and the loading screen is gone with nothing
\* seeded.
C38Witness ==
    /\ ~native
    /\ mounted
    /\ ~isPreloading
    /\ Len(preloadCalls) >= 1
    /\ preloadCalls[1].got = "null"
    /\ initPromises[preloadCalls[1].ref].token # NoTok
    /\ ~initialDataResolved
    /\ \A k \in Keys : cache[k] = NoEntry

\* C39 (as stated): once the cleanup of an effect run of usePrStatusEvents has
\* run, the handler that run registered is no longer registered, whether the
\* listen promise had resolved before the cleanup or not; hence at most one
\* handler of the event is registered at any time.
C39Cleaned ==
    /\ \A i \in 1..Len(prEffects) :
          (prEffects[i].cleaned /\ prEffects[i].closure # 0) =>
             prEffects[i].handler \notin Registered(listeners, PrStatusUpdate)
    /\ Cardinality(Registered(listeners, PrStatusUpdate)) <= 1

====
